---- MODULE Spec2Model ----
(***************************************************************************)
(* Model of the reconciliation bot (src/bot.py, src/teams.py).             *)
(*                                                                         *)
(* Text is modelled as a sequence of Unicode code points, so that          *)
(* lower-casing, splitting, substring search and the code-point order of   *)
(* Python's string comparison are computed, not assumed.  Hours are kept   *)
(* as integers: spreadsheet hours in thousandths of an hour, rounded       *)
(* hours (round(x, 2)) in hundredths of an hour, worklogs in seconds.      *)
(***************************************************************************)
EXTENDS Integers, Sequences, FiniteSets, TLC

VARIABLES
    pc,                \* position of the modelled run in worker_process_file
    JIRA_LOOKUP_CACHE, \* bot.py:44 the directory cache, an ordered dict
    candidates,        \* the sheet rows that reach bot.py:265 with hours or absences
    excel_data,        \* bot.py:237
    target_jira_keys,  \* bot.py:238
    team_mapping,      \* bot.py:272
    leads_mapping,     \* bot.py:275
    tempo_agg,         \* bot.py:280
    report_rows,       \* bot.py:290
    df,                \* bot.py:316-319 the sorted frame
    teams_with_issues, \* bot.py:344
    lead_post,         \* bot.py:381 the leads tagged by the notification, if posted
    target_teams,      \* bot.py:129 the teams whose members are still to be asked for
    user_team_map,     \* bot.py:134
    worker_ids,        \* bot.py:150 the identifiers still to be sent
    all_worklogs,      \* bot.py:151
    requests,          \* the requests sent to the team and worklog services, in order
    main_pc,           \* bot.py:411-420 position of the main program
    USER_KEY_CACHE,    \* teams.py:7 the user names resolved from user keys
    threads,           \* bot.py:406-407 the state of the thread of each file
    all_teams,         \* bot.py:126, 139 the roster the team service holds, with its members
    report_period,     \* bot.py:202 the report period read from the sheet
    df_raw,            \* bot.py:196 the cells of the sheet
    record_rows        \* bot.py:241 the row index i at which each record was appended

fetchVars == <<target_teams, user_team_map, worker_ids, all_worklogs, requests>>

runVars == <<main_pc, USER_KEY_CACHE, threads>>

inputVars == <<all_teams, report_period, df_raw, record_rows>>

vars == <<pc, JIRA_LOOKUP_CACHE, candidates, excel_data, target_jira_keys,
          team_mapping, leads_mapping, tempo_agg, report_rows, df,
          teams_with_issues, lead_post, fetchVars, runVars, inputVars>>

\* no request of the aggregation has been sent
FetchIdle ==
    /\ target_teams = <<>>
    /\ user_team_map = [x \in {} |-> 0]
    /\ worker_ids = <<>>
    /\ all_worklogs = <<>>
    /\ requests = <<>>

MaxFiles == 2

Files == 1..MaxFiles

\* bot.py:179-185: a file no thread has been started for
NoThread ==
    [pc |-> "none", status_post_id |-> <<>>, status_text |-> "", status_errors |-> FALSE,
     download |-> "none", jira_user |-> <<>>, row |-> 1, from_cache |-> {},
     report |-> FALSE]

\* no roster and no sheet has been read
InputIdle ==
    /\ all_teams = <<>>
    /\ report_period = [start |-> 0, end |-> 0]
    /\ df_raw = <<>>
    /\ record_rows = <<>>

\* the program is listening and no file has been uploaded
RunIdle ==
    /\ main_pc = "websocket"
    /\ USER_KEY_CACHE = [x \in {} |-> 0]
    /\ threads = [f \in Files |-> NoThread]

----------------------------------------------------------------------------
(* Text primitives                                                         *)

\* Python's None where a text is expected (a code point no text holds).
None == <<-1>>

Min(a, b) == IF a <= b THEN a ELSE b

\* str.lower() on the modelled alphabet: A-Z, and the Cyrillic capitals.
LowerChar(c) ==
    IF c >= 65 /\ c <= 90 THEN c + 32
    ELSE IF c >= 1040 /\ c <= 1071 THEN c + 32
    ELSE IF c = 1025 THEN 1105
    ELSE c

Lower(s) == [i \in 1..Len(s) |-> LowerChar(s[i])]

\* str.replace('.', ' ')
ReplaceDot(s) == [i \in 1..Len(s) |-> IF s[i] = 46 THEN 32 ELSE s[i]]

\* the characters str.split() treats as white space
IsSpace(c) == c \in {9, 10, 11, 12, 13, 32, 133, 160}

IsDigit(c) == c >= 48 /\ c <= 57

\* str.split(): the maximal runs of non-space characters, in order
RECURSIVE SplitFrom(_, _, _)
SplitFrom(s, i, cur) ==
    IF i > Len(s) THEN (IF cur = <<>> THEN <<>> ELSE <<cur>>)
    ELSE IF IsSpace(s[i])
         THEN (IF cur = <<>> THEN <<>> ELSE <<cur>>) \o SplitFrom(s, i + 1, <<>>)
         ELSE SplitFrom(s, i + 1, Append(cur, s[i]))

Split(s) == SplitFrom(s, 1, <<>>)

\* sub occurs in s at position i
MatchAt(sub, s, i) ==
    /\ i >= 1
    /\ i + Len(sub) - 1 <= Len(s)
    /\ \A k \in 1..Len(sub) : s[i + k - 1] = sub[k]

\* Python's `sub in s`
Contains(sub, s) == \E i \in 1..(Len(s) + 1) : MatchAt(sub, s, i)

\* Python's comparison of two str: code point by code point, a proper prefix first
RECURSIVE StrLess(_, _)
StrLess(a, b) ==
    IF b = <<>> THEN FALSE
    ELSE IF a = <<>> THEN TRUE
    ELSE IF a[1] # b[1] THEN a[1] < b[1]
    ELSE StrLess(Tail(a), Tail(b))

----------------------------------------------------------------------------
(* The directory cache: get_all_jira_users                                  *)

\* An ordered dict is a sequence of <<key, value>> pairs in insertion order.
EmptyDict == <<>>

DictHas(d, k) == \E i \in 1..Len(d) : d[i][1] = k

\* d[k] = v: a new key goes last, a known key keeps its place
DictSet(d, k, v) ==
    IF DictHas(d, k)
    THEN [i \in 1..Len(d) |-> IF d[i][1] = k THEN <<k, v>> ELSE d[i]]
    ELSE Append(d, <<k, v>>)

DictValues(d) == [i \in 1..Len(d) |-> d[i][2]]

\* bot.py:79-92: what one directory user adds to lookup_map
AddUser(lookup_map, u) ==
    LET login == u.name
        key == IF u.key = None \/ u.key = <<>> THEN login ELSE u.key
        d_name == u.displayName
        user_obj == [login |-> login, key |-> key, displayName |-> d_name]
        parts == IF d_name = None THEN <<>> ELSE Split(d_name)
        m1 == IF d_name # None /\ d_name # <<>>
              THEN DictSet(lookup_map, Lower(d_name), user_obj)
              ELSE lookup_map
        m2 == IF d_name # None /\ d_name # <<>> /\ Len(parts) = 2
              THEN DictSet(m1, Lower(parts[2] \o <<32>> \o parts[1]), user_obj)
              ELSE m1
    IN  IF login # None /\ login # <<>>
        THEN DictSet(m2, Lower(login), user_obj)
        ELSE m2

\* bot.py:77-93: lookup_map of the users the directory returned
RECURSIVE get_all_jira_users(_)
get_all_jira_users(users) ==
    IF users = <<>> THEN EmptyDict
    ELSE AddUser(get_all_jira_users(SubSeq(users, 1, Len(users) - 1)),
                 users[Len(users)])

\* bot.py:239: {v['key']: v for v in cache.values()}.values()
RECURSIVE UniqueByKey(_)
UniqueByKey(values) ==
    IF values = <<>> THEN EmptyDict
    ELSE LET v == values[Len(values)]
         IN DictSet(UniqueByKey(SubSeq(values, 1, Len(values) - 1)), v.key, v)

unique_users_of(cache) == DictValues(UniqueByKey(DictValues(cache)))

----------------------------------------------------------------------------
(* check_name_match and the resolution of a record                         *)

\* bot.py:164: the parts of a name that are longer than one character
NameParts(name) ==
    LET parts == Split(ReplaceDot(Lower(name)))
    IN {parts[i] : i \in {k \in 1..Len(parts) : Len(parts[k]) > 1}}

\* a match that asks for every part of the sheet name, not for one
check_name_match_all_parts(jira_name, excel_name) ==
    IF jira_name = None \/ jira_name = <<>> \/ excel_name = <<>> THEN FALSE
    ELSE NameParts(excel_name) # {} /\ NameParts(excel_name) \subseteq NameParts(jira_name)

\* bot.py:162-166
check_name_match(jira_name, excel_name) ==
    IF jira_name = None \/ jira_name = <<>> \/ excel_name = <<>> THEN FALSE
    ELSE NameParts(jira_name) \cap NameParts(excel_name) # {}

\* bot.py:266: next((u for u in unique_users if check_name_match(...)), None);
\* <<>> stands for None, <<u>> for the user found
RECURSIVE FirstMatch(_, _)
FirstMatch(users, clean_name) ==
    IF users = <<>> THEN <<>>
    ELSE IF check_name_match(Head(users).displayName, clean_name) THEN <<Head(users)>>
    ELSE FirstMatch(Tail(users), clean_name)

\* sorted(list(absences))
RECURSIVE SortedList(_)
SortedList(S) ==
    IF S = {} THEN <<>>
    ELSE LET m == CHOOSE x \in S : \A y \in S : x = y \/ StrLess(x, y)
         IN <<m>> \o SortedList(S \ {m})

\* bot.py:265-268: the record of the next candidate row, resolved
ResolveRecord ==
    /\ pc = "extract"
    /\ Len(excel_data) < Len(candidates)
    /\ LET c == candidates[Len(excel_data) + 1]
           found_u == FirstMatch(unique_users_of(JIRA_LOOKUP_CACHE), c.clean_name)
       IN /\ target_jira_keys' = IF found_u # <<>>
                                 THEN target_jira_keys \cup {found_u[1].key}
                                 ELSE target_jira_keys
          /\ excel_data' = Append(excel_data,
                 [name_1c |-> c.clean_name, hours_1c |-> c.hours,
                  jira_user |-> found_u, absences |-> SortedList(c.absences)])
    /\ UNCHANGED <<pc, JIRA_LOOKUP_CACHE, candidates, team_mapping, leads_mapping,
                   tempo_agg, report_rows, df, teams_with_issues, lead_post>>
    /\ UNCHANGED <<fetchVars, runVars, inputVars>>

----------------------------------------------------------------------------
(* get_team_rank                                                           *)

str_other  == <<111, 116, 104, 101, 114>>                      \* "other"
str_Other  == <<79, 116, 104, 101, 114>>                       \* "Other"
str_arch   == <<97, 114, 99, 104, 45, 116, 101, 97, 109>>      \* "arch-team"
str_change == <<99, 104, 97, 110, 103, 101, 45, 116, 101, 97, 109>> \* "change-team"
str_stream == <<115, 116, 114, 101, 97, 109>>                  \* "stream"

\* the value of the decimal digits s[i..j]
RECURSIVE DigitsValue(_, _, _)
DigitsValue(s, i, j) ==
    IF j < i THEN 0 ELSE DigitsValue(s, i, j - 1) * 10 + (s[j] - 48)

\* the end of the maximal run of digits that starts at i
RECURSIVE DigitsEnd(_, _)
DigitsEnd(s, i) ==
    IF i + 1 <= Len(s) /\ IsDigit(s[i + 1]) THEN DigitsEnd(s, i + 1) ELSE i

\* re.search(r'stream(\d+)', tn): the positions where "stream" is followed by a digit
StreamNumberAt(tn) ==
    {i \in 1..Len(tn) : MatchAt(str_stream, tn, i)
                          /\ i + 6 <= Len(tn) /\ IsDigit(tn[i + 6])}

\* int(match.group(1)) if match else 999
StreamNumber(tn) ==
    IF StreamNumberAt(tn) = {} THEN 999
    ELSE LET i == CHOOSE m \in StreamNumberAt(tn) :
                      \A n \in StreamNumberAt(tn) : m <= n
         IN DigitsValue(tn, i + 6, DigitsEnd(tn, i + 6))

\* a rank that forgets the sentinel of the stream teams without a number
get_team_rank_no_sentinel(team_name) ==
    LET tn == Lower(team_name) IN
    IF tn = str_other THEN <<99, 0, tn>>
    ELSE IF Contains(str_arch, tn) THEN <<1, 0, tn>>
    ELSE IF Contains(str_change, tn) THEN <<2, 0, tn>>
    ELSE IF Contains(str_stream, tn)
         THEN <<3, IF StreamNumberAt(tn) = {} THEN 0 ELSE StreamNumber(tn), tn>>
    ELSE <<4, 0, tn>>

get_team_rank(team_name) ==
    LET tn == Lower(team_name) IN
    IF tn = str_other THEN <<99, 0, tn>>
    ELSE IF Contains(str_arch, tn) THEN <<1, 0, tn>>
    ELSE IF Contains(str_change, tn) THEN <<2, 0, tn>>
    ELSE IF Contains(str_stream, tn) THEN <<3, StreamNumber(tn), tn>>
    ELSE <<4, 0, tn>>

----------------------------------------------------------------------------
(* df.sort_values(by=['SortRank', 'SortNum', 'Team', name_1c])             *)

\* row a sorts strictly before row b
RowLess(a, b) ==
    LET ra == get_team_rank(a.Team)
        rb == get_team_rank(b.Team) IN
    IF ra[1] # rb[1] THEN ra[1] < rb[1]
    ELSE IF ra[2] # rb[2] THEN ra[2] < rb[2]
    ELSE IF a.Team # b.Team THEN StrLess(a.Team, b.Team)
    ELSE StrLess(a.name_1c, b.name_1c)

\* r put into the sorted list after every row that does not sort after it
RECURSIVE InsertRow(_, _)
InsertRow(r, sorted) ==
    IF sorted = <<>> THEN <<r>>
    ELSE IF RowLess(r, Head(sorted)) THEN <<r>> \o sorted
    ELSE <<Head(sorted)>> \o InsertRow(r, Tail(sorted))

\* a stable sort of the rows by the four sort columns
RECURSIVE sort_values(_)
sort_values(rows) ==
    IF rows = <<>> THEN <<>>
    ELSE InsertRow(rows[Len(rows)], sort_values(SubSeq(rows, 1, Len(rows) - 1)))


----------------------------------------------------------------------------
(* The aggregated context and the report rows                              *)

str_dash == <<8212>>                                           \* the dash of bot.py:293
status_ok == <<9989, 32, 79, 75>>                              \* bot.py:305
status_variance ==                                             \* bot.py:306
    <<9888, 65039, 32, 1056, 1072, 1089, 1093, 1086, 1078, 1076, 1077, 1085, 1080, 1077>>
status_unresolved ==                                           \* bot.py:307
    <<10067, 32, 1053, 1077, 32, 1085, 1072, 1081, 1076, 1077, 1085, 32, 1074, 32,
      74, 105, 114, 97>>
mark_warning == <<9888, 65039>>                                \* the sign of bot.py:352

EmptyMap == [x \in {} |-> 0]

Abs(n) == IF n < 0 THEN 0 - n ELSE n

\* round(n / d) to an integer.  Python rounds the binary float: a value that
\* lies exactly between two results goes to either, depending on the float
\* nearest to it (round(0.015, 2) = 0.01, round(0.025, 2) = 0.03).
RoundChoices(n, d) ==
    LET q == n \div d
        r == n % d
    IN  IF 2 * r < d THEN {q}
        ELSE IF 2 * r > d THEN {q + 1}
        ELSE {q, q + 1}

\* the seconds under the key and those under the login, added
TempoSeconds_added(agg, j_key, j_login) ==
    (IF j_key \in DOMAIN agg THEN agg[j_key] ELSE 0)
        + (IF j_login \in DOMAIN agg /\ j_login # j_key THEN agg[j_login] ELSE 0)

\* bot.py:299: tempo_agg.get(j_key) or tempo_agg.get(j_login) or 0
TempoSeconds(agg, j_key, j_login) ==
    IF j_key \in DOMAIN agg /\ agg[j_key] # 0 THEN agg[j_key]
    ELSE IF j_login \in DOMAIN agg /\ agg[j_login] # 0 THEN agg[j_login]
    ELSE 0

\* a status that lets the variance override the missing identity
RowStatus_variance_last(diff, j_name) ==
    IF Abs(diff) > 400 THEN status_variance
    ELSE IF j_name = str_dash THEN status_unresolved
    ELSE status_ok

\* a status whose threshold is not strict
RowStatus_not_strict(diff, j_name) ==
    IF j_name = str_dash THEN status_unresolved
    ELSE IF Abs(diff) >= 400 THEN status_variance
    ELSE status_ok

\* bot.py:305-307; diff in hundredths of an hour
RowStatus(diff, j_name) ==
    IF j_name = str_dash THEN status_unresolved
    ELSE IF Abs(diff) > 400 THEN status_variance
    ELSE status_ok

\* bot.py:292-300: the seconds, names and team of a record
RowSeconds(r) ==
    IF r.jira_user # <<>>
    THEN TempoSeconds(tempo_agg, r.jira_user[1].key, r.jira_user[1].login)
    ELSE 0

RowJiraName(r) == IF r.jira_user # <<>> THEN r.jira_user[1].displayName ELSE str_dash

RowJiraKey(r) == IF r.jira_user # <<>> THEN r.jira_user[1].key ELSE str_dash

RowTeam(r) ==
    IF r.jira_user # <<>> /\ r.jira_user[1].key \in DOMAIN team_mapping
    THEN team_mapping[r.jira_user[1].key]
    ELSE str_Other

\* bot.py:291-314: the report row of the next record.  t_hours is
\* round(t_sec / 3600, 2) in hundredths, diff is round(t_hours - hours_1c, 2)
\* in hundredths, hours_1c being in thousandths of an hour.
BuildRow ==
    /\ pc = "build"
    /\ Len(report_rows) < Len(excel_data)
    /\ LET r == excel_data[Len(report_rows) + 1] IN
       \E t_hours \in RoundChoices(RowSeconds(r), 36) :
       \E diff \in RoundChoices(t_hours * 10 - r.hours_1c, 10) :
           report_rows' = Append(report_rows,
               [Team |-> RowTeam(r), name_1c |-> r.name_1c,
                name_jira |-> RowJiraName(r), jira_key |-> RowJiraKey(r),
                hours_1c |-> r.hours_1c, absences |-> r.absences,
                hours_tempo |-> t_hours, diff |-> diff,
                status |-> RowStatus(diff, RowJiraName(r))])
    /\ pc' = IF Len(report_rows) + 1 = Len(excel_data) THEN "sort" ELSE "build"
    /\ UNCHANGED <<JIRA_LOOKUP_CACHE, candidates, excel_data, target_jira_keys,
                   team_mapping, leads_mapping, tempo_agg, df, teams_with_issues,
                   lead_post>>
    /\ UNCHANGED <<fetchVars, runVars, inputVars>>

\* bot.py:316-319: the frame of the rows, sorted; a frame of no rows has no
\* 'Team' column and df['Team'] raises, which ends the run in its handler
SortReport ==
    /\ pc = "sort"
    /\ IF report_rows = <<>>
       THEN /\ pc' = "error"
            /\ df' = <<>>
       ELSE /\ pc' = "render"
            /\ df' = sort_values(report_rows)
    /\ UNCHANGED <<JIRA_LOOKUP_CACHE, candidates, excel_data, target_jira_keys,
                   team_mapping, leads_mapping, tempo_agg, report_rows,
                   teams_with_issues, lead_post>>
    /\ UNCHANGED <<fetchVars, runVars, inputVars>>

\* bot.py:321-338: the workbook is rendered; a failure raises into the handler
Render ==
    /\ pc = "render"
    /\ pc' \in {"summarize", "error"}
    /\ UNCHANGED <<JIRA_LOOKUP_CACHE, candidates, excel_data, target_jira_keys,
                   team_mapping, leads_mapping, tempo_agg, report_rows, df,
                   teams_with_issues, lead_post>>
    /\ UNCHANGED <<fetchVars, runVars, inputVars>>

\* a test for trouble that takes every row that is not OK
IsBad_not_ok(row) == row.status # status_ok

\* bot.py:352: team_df['Статус'].str.contains the warning sign
IsBad(row) == Contains(mark_warning, row.status)

\* bot.py:344-357: the teams that have a bad row
Summarize ==
    /\ pc = "summarize"
    /\ teams_with_issues' =
           {team \in {df[i].Team : i \in 1..Len(df)} :
                \E i \in 1..Len(df) : df[i].Team = team /\ IsBad(df[i])}
    /\ pc' = "post"
    /\ UNCHANGED <<JIRA_LOOKUP_CACHE, candidates, excel_data, target_jira_keys,
                   team_mapping, leads_mapping, tempo_agg, report_rows, df, lead_post>>
    /\ UNCHANGED <<fetchVars, runVars, inputVars>>

\* bot.py:368-370: the report is uploaded and posted; a failure raises
PostReport ==
    /\ pc = "post"
    /\ pc' \in {"tag", "error"}
    /\ UNCHANGED <<JIRA_LOOKUP_CACHE, candidates, excel_data, target_jira_keys,
                   team_mapping, leads_mapping, tempo_agg, report_rows, df,
                   teams_with_issues, lead_post>>
    /\ UNCHANGED <<fetchVars, runVars, inputVars>>

\* bot.py:374-377
leads_to_tag ==
    {leads_mapping[t_name] : t_name \in teams_with_issues \cap DOMAIN leads_mapping}

\* bot.py:373-385: the leads of the teams with issues are tagged in one post
TagLeads ==
    /\ pc = "tag"
    /\ IF teams_with_issues # {} /\ DOMAIN leads_mapping # {} /\ leads_to_tag # {}
       THEN \/ lead_post' = <<leads_to_tag>> /\ pc' = "done"
            \/ lead_post' = lead_post /\ pc' = "error"
       ELSE lead_post' = lead_post /\ pc' = "done"
    /\ UNCHANGED <<JIRA_LOOKUP_CACHE, candidates, excel_data, target_jira_keys,
                   team_mapping, leads_mapping, tempo_agg, report_rows, df,
                   teams_with_issues>>
    /\ UNCHANGED <<fetchVars, runVars, inputVars>>

----------------------------------------------------------------------------
(* One run, from the records of the sheet to the post that tags the leads  *)

MaxRecords == 2

txt_ivanov == <<105, 118, 97, 110, 111, 118>>                  \* "ivanov"
txt_petrov == <<112, 101, 116, 114, 111, 118>>                 \* "petrov"
txt_dash_login == <<100, 97, 115, 104>>                        \* "dash"
txt_nobody == <<110, 111, 98, 111, 100, 121>>                  \* "nobody"
key_user1 == <<74, 73, 82, 65, 85, 83, 69, 82, 49>>            \* "JIRAUSER1"
key_user3 == <<74, 73, 82, 65, 85, 83, 69, 82, 51>>            \* "JIRAUSER3"
key_user4 == <<74, 73, 82, 65, 85, 83, 69, 82, 52>>            \* "JIRAUSER4"
name_ivanov_ivan ==
    <<1048, 1074, 1072, 1085, 1086, 1074, 32, 1048, 1074, 1072, 1085>>          \* "Иванов Иван"
name_ivan_ivanov ==
    <<1048, 1074, 1072, 1085, 32, 1048, 1074, 1072, 1085, 1086, 1074>>          \* "Иван Иванов"
name_petrov_ivan ==
    <<1055, 1077, 1090, 1088, 1086, 1074, 32, 1048, 1074, 1072, 1085>>          \* "Петров Иван"
name_petrov_p == <<1055, 1077, 1090, 1088, 1086, 1074, 32, 1055, 46>>           \* "Петров П."
name_sidorov == <<1057, 1080, 1076, 1086, 1088, 1086, 1074>>                    \* "Сидоров"
code_sick == <<1041>>                                                           \* "Б"
team_stream2 == <<115, 116, 114, 101, 97, 109, 50, 45, 116, 101, 97, 109>>      \* "stream2-team"
lead_arch == <<64, 108, 101, 97, 100, 95, 97, 114, 99, 104>>                    \* "@lead_arch"
lead_stream == <<64, 108, 101, 97, 100, 95, 115, 116, 114, 101, 97, 109>>       \* "@lead_stream"

\* the users the directory returns: one with key and name, one without a key,
\* one whose display name is the dash, one without a display name
DirectoryUsers ==
    <<[name |-> txt_ivanov, key |-> key_user1, displayName |-> name_ivan_ivanov],
      [name |-> txt_petrov, key |-> None, displayName |-> name_petrov_ivan],
      [name |-> txt_dash_login, key |-> key_user3, displayName |-> str_dash],
      [name |-> txt_nobody, key |-> key_user4, displayName |-> None]>>

Candidate(name, hours, absences) ==
    [clean_name |-> name, hours |-> hours, absences |-> absences]

\* rows that pass bot.py:265 (hours > 0 or absences); hours in thousandths
CandidateRows ==
    {Candidate(name_ivanov_ivan, h, {}) : h \in {159990, 160000, 160005, 168000, 168010}}
    \cup {Candidate(n, 160000, {}) : n \in {name_sidorov, name_petrov_p}}
    \cup {Candidate(n, 0, {code_sick}) : n \in {name_sidorov, name_petrov_p}}

\* what get_tempo_teams_assignments can return for these users
TeamMappings ==
    {EmptyMap,
     key_user1 :> str_arch,
     key_user1 :> team_stream2 @@ txt_petrov :> str_arch}

\* what teams.fetch_team_leads_mapping can return
LeadsMappings ==
    {EmptyMap, str_arch :> lead_arch @@ team_stream2 :> lead_stream}

\* the totals the worklogs can add up to, per worker identifier, in seconds
SecondsChoices(wid) ==
    IF wid = key_user1 THEN {0, 590400, 590418}
    ELSE IF wid = txt_ivanov THEN {590436}
    ELSE {}

TempoAggs ==
    UNION {{f \in [D -> {0, 590400, 590418, 590436}] :
                \A w \in D : f[w] \in SecondsChoices(w)} :
           D \in SUBSET {key_user1, txt_ivanov}}

\* bot.py:271-272: the team of each user key, as the team service gives it
GetTeams ==
    /\ pc = "extract"
    /\ Len(excel_data) = Len(candidates)
    /\ team_mapping' \in TeamMappings
    /\ pc' = "leads"
    /\ UNCHANGED <<JIRA_LOOKUP_CACHE, candidates, excel_data, target_jira_keys,
                   leads_mapping, tempo_agg, report_rows, df, teams_with_issues,
                   lead_post>>
    /\ UNCHANGED <<fetchVars, runVars, inputVars>>

\* bot.py:275-278: the lead of each team, as the wiki page gives it
GetLeads ==
    /\ pc = "leads"
    /\ leads_mapping' \in LeadsMappings
    /\ pc' = "worklogs"
    /\ UNCHANGED <<JIRA_LOOKUP_CACHE, candidates, excel_data, target_jira_keys,
                   team_mapping, tempo_agg, report_rows, df, teams_with_issues,
                   lead_post>>
    /\ UNCHANGED <<fetchVars, runVars, inputVars>>

\* bot.py:280-286: the seconds of each worker; no request without a resolved key
GetWorklogs ==
    /\ pc = "worklogs"
    /\ tempo_agg' \in IF target_jira_keys = {} THEN {EmptyMap} ELSE TempoAggs
    /\ pc' = IF excel_data = <<>> THEN "sort" ELSE "build"
    /\ UNCHANGED <<JIRA_LOOKUP_CACHE, candidates, excel_data, target_jira_keys,
                   team_mapping, leads_mapping, report_rows, df, teams_with_issues,
                   lead_post>>
    /\ UNCHANGED <<fetchVars, runVars, inputVars>>

Init ==
    /\ pc = "extract"
    /\ JIRA_LOOKUP_CACHE = get_all_jira_users(DirectoryUsers)
    /\ candidates \in UNION {[1..n -> CandidateRows] : n \in 0..MaxRecords}
    /\ excel_data = <<>>
    /\ target_jira_keys = {}
    /\ team_mapping = EmptyMap
    /\ leads_mapping = EmptyMap
    /\ tempo_agg = EmptyMap
    /\ report_rows = <<>>
    /\ df = <<>>
    /\ teams_with_issues = {}
    /\ lead_post = <<>>
    /\ FetchIdle
    /\ RunIdle
    /\ InputIdle

Next ==
    \/ ResolveRecord
    \/ GetTeams
    \/ GetLeads
    \/ GetWorklogs
    \/ BuildRow
    \/ SortReport
    \/ Render
    \/ Summarize
    \/ PostReport
    \/ TagLeads

Spec == Init /\ [][Next]_vars

----------------------------------------------------------------------------
(* The sort alone, over the rows a report can hold                         *)

MaxRows == 3

team_arch_cap == <<65, 114, 99, 104, 45, 116, 101, 97, 109>>   \* "Arch-team"
team_stream10 == <<115, 116, 114, 101, 97, 109, 49, 48, 45, 116, 101, 97, 109>> \* "stream10-team"
team_streamA == <<115, 116, 114, 101, 97, 109, 65, 45, 116, 101, 97, 109>>      \* "streamA-team"
team_stream1000 ==
    <<115, 116, 114, 101, 97, 109, 49, 48, 48, 48, 45, 116, 101, 97, 109>>      \* "stream1000-team"

\* the team names a row can carry: "Other" (bot.py:293) or a roster name that
\* matches the pattern of bot.py:130
SortTeams ==
    {str_Other, str_arch, team_arch_cap, str_change,
     team_stream2, team_stream10, team_streamA, team_stream1000}

SortNames == {name_ivanov_ivan, name_petrov_p}

SortUser == [login |-> txt_ivanov, key |-> key_user1, displayName |-> name_ivan_ivanov]

\* a row as bot.py:309-314 builds it, of a resolved employee with equal hours
SortRow(team, name) ==
    [Team |-> team, name_1c |-> name, name_jira |-> SortUser.displayName,
     jira_key |-> SortUser.key, hours_1c |-> 160000, absences |-> <<>>,
     hours_tempo |-> 16000, diff |-> 0, status |-> status_ok]

\* the record such a row was built from
SortRecord(row) ==
    [name_1c |-> row.name_1c, hours_1c |-> row.hours_1c,
     jira_user |-> <<SortUser>>, absences |-> <<>>]

SortUniverse == {SortRow(t, n) : t \in SortTeams, n \in SortNames}

\* the rows of the team rank example: Other, stream2-team, arch-team,
\* streamA-team, change-team
TeamRankExample ==
    <<SortRow(str_Other, name_ivanov_ivan), SortRow(team_stream2, name_ivanov_ivan),
      SortRow(str_arch, name_ivanov_ivan), SortRow(team_streamA, name_ivanov_ivan),
      SortRow(str_change, name_ivanov_ivan)>>

SortInputs ==
    UNION {[1..n -> SortUniverse] : n \in 0..MaxRows} \cup {TeamRankExample}

InitSort ==
    /\ pc = "sort"
    /\ JIRA_LOOKUP_CACHE = get_all_jira_users(DirectoryUsers)
    /\ candidates = <<>>
    /\ report_rows \in SortInputs
    /\ excel_data = [i \in 1..Len(report_rows) |-> SortRecord(report_rows[i])]
    /\ target_jira_keys = {key_user1}
    /\ team_mapping = EmptyMap
    /\ leads_mapping = EmptyMap
    /\ tempo_agg = key_user1 :> 576000
    /\ df = <<>>
    /\ teams_with_issues = {}
    /\ lead_post = <<>>
    /\ FetchIdle
    /\ RunIdle
    /\ InputIdle

NextSort == SortReport

SpecSort == InitSort /\ [][NextSort]_vars

TeamsOf(rows) == [i \in 1..Len(rows) |-> rows[i].Team]

----------------------------------------------------------------------------
(* C3 *)

\* C3 as stated: the rows of the team rank example come out in the order
\* arch-team, change-team, streamA-team, stream2-team, Other.
C3_ExampleOrderAsStated ==
    (pc = "render" /\ report_rows = TeamRankExample)
        => TeamsOf(df) = <<str_arch, str_change, team_streamA, team_stream2, str_Other>>

\* C3 amended: the rows of the team rank example come out in the order
\* arch-team, change-team, stream2-team, streamA-team, Other: in the stream
\* tier the numbered team comes before the team without a number.
C3_ExampleOrder ==
    (pc = "render" /\ report_rows = TeamRankExample)
        => TeamsOf(df) = <<str_arch, str_change, team_stream2, team_streamA, str_Other>>

C3_Witness == pc = "render" /\ report_rows = TeamRankExample

----------------------------------------------------------------------------
(* C4 *)

\* the tiers as the claim words them
ClaimIsStream(team) ==
    LET tn == Lower(team) IN
    /\ MatchAt(str_stream, tn, 1)
    /\ MatchAt(<<45, 116, 101, 97, 109>>, tn, Len(tn) - 4)

ClaimIsNumbered(team) ==
    ClaimIsStream(team) /\ Len(team) >= 7 /\ IsDigit(team[7])

ClaimN(team) == DigitsValue(team, 7, DigitsEnd(team, 7))

ClaimTier(team) ==
    IF team = str_Other THEN 5
    ELSE IF Lower(team) = str_arch THEN 1
    ELSE IF Lower(team) = str_change THEN 2
    ELSE IF ClaimIsStream(team) THEN 3
    ELSE 4

StrLeq(a, b) == a = b \/ StrLess(a, b)

\* row a may stand before row b in the order C4 states
ClaimOrdered(a, b) ==
    /\ ClaimTier(a.Team) <= ClaimTier(b.Team)
    /\ ClaimTier(a.Team) = ClaimTier(b.Team) =>
        /\ (ClaimIsNumbered(a.Team) /\ ClaimIsNumbered(b.Team))
               => ClaimN(a.Team) <= ClaimN(b.Team)
        /\ ~(ClaimIsStream(a.Team) /\ ~ClaimIsNumbered(a.Team) /\ ClaimIsNumbered(b.Team))
        /\ (ClaimIsNumbered(a.Team) = ClaimIsNumbered(b.Team)
              /\ (ClaimIsNumbered(a.Team) => ClaimN(a.Team) = ClaimN(b.Team)))
               => /\ StrLeq(a.Team, b.Team)
                  /\ a.Team = b.Team => StrLeq(a.name_1c, b.name_1c)

\* C4: the sorted report is non-decreasing in (tier, N, team name, 1C name):
\* arch-team, change-team, the stream teams by ascending N with every stream
\* team without a number after all numbered ones, then "Other" last.
C4_ReportOrder ==
    pc = "render" =>
        \A i, j \in 1..Len(df) : i < j => ClaimOrdered(df[i], df[j])

----------------------------------------------------------------------------
(* The aggregation request by request: get_tempo_teams_assignments and     *)
(* fetch_tempo_worklogs_for_users                                          *)

MaxWorkers == 60

BatchSize == 25
FarPast == 730120                      \* date(2000, 1, 1) as a day number
FarFuture == 766644                    \* date(2099, 12, 31) as a day number

\* the report period 2024-03-01 .. 2024-03-31, as day numbers
ReportPeriod == [start |-> 738946, end |-> 738976]

\* how a request can end: status 200, another status, an exception of the transport
Outcomes == {"ok", "status", "error"}

\* the n-th resolved user of a large sheet, and the sheet name that matches it
FetchKey(n) == <<256 + n>>
FetchUser(n) ==
    [name |-> <<117, 256 + n>>, key |-> FetchKey(n), displayName |-> <<256 + n, 256 + n>>]
FetchUserObj(n) ==
    [login |-> FetchUser(n).name, key |-> FetchKey(n),
     displayName |-> FetchUser(n).displayName]

\* lookup_map of the first n of these users, as get_all_jira_users leaves it:
\* each user under its lower-cased display name and under its login
FetchCache(n) ==
    [j \in 1..(2 * n) |->
        IF j % 2 = 1
        THEN <<Lower(FetchUser((j + 1) \div 2).displayName), FetchUserObj((j + 1) \div 2)>>
        ELSE <<Lower(FetchUser(j \div 2).name), FetchUserObj(j \div 2)>>]

team_qa == <<113, 97, 45, 116, 101, 97, 109>>                  \* "qa-team"

\* the teams of the team service
TempoTeams ==
    <<[id |-> 1, name |-> str_arch], [id |-> 2, name |-> team_qa],
      [id |-> 3, name |-> team_stream2]>>

\* a membership entry; a date is <<>> when missing, else <<day number>>
Membership(key, date_from, date_to) ==
    [key |-> key, dateFrom |-> date_from, dateTo |-> date_to]

\* the membership entries the team service holds for a team
TempoMembers(team_id) ==
    IF team_id = 1
    THEN <<Membership(FetchKey(1), <<>>, <<>>),
           Membership(FetchKey(2), <<>>, <<738945>>),
           Membership(None, <<>>, <<>>),
           Membership(FetchKey(3), <<738976>>, <<>>)>>
    ELSE IF team_id = 3
    THEN <<Membership(FetchKey(1), <<>>, <<738946>>),
           Membership(FetchKey(4), <<738977>>, <<>>)>>
    ELSE <<Membership(FetchKey(5), <<>>, <<>>)>>

\* the worklog entries the worklog service holds for a worker
TempoWorklogs(worker) ==
    LET n == worker[1] - 256
        count == IF n % 10 = 0 THEN 2 ELSE IF n % 10 = 5 THEN 1 ELSE 0
    IN [i \in 1..count |-> [worker |-> worker, timeSpentSeconds |-> 1800 * n]]

\* bot.py:130: the pattern ^(stream.*-team|change-team|arch-team)$, case ignored
pattern_match(name) ==
    LET tn == Lower(name) IN
    \/ tn = str_arch
    \/ tn = str_change
    \/ /\ Len(tn) >= 11
       /\ MatchAt(str_stream, tn, 1)
       /\ MatchAt(<<45, 116, 101, 97, 109>>, tn, Len(tn) - 4)
       /\ \A i \in 1..Len(tn) : tn[i] # 10

\* an entry that is active when it starts before the period ends, whatever its end
assign_members_from_only(map, team, members, period) ==
    LET active == {i \in 1..Len(members) :
                      /\ members[i].key # None /\ members[i].key # <<>>
                      /\ (IF members[i].dateFrom = <<>> THEN FarPast
                          ELSE members[i].dateFrom[1]) <= period.end}
    IN [k \in DOMAIN map \cup {members[i].key : i \in active} |->
           IF \E i \in active : members[i].key = k THEN team.name ELSE map[k]]

\* bot.py:139-146: the entries of one team's members put into user_team_map
RECURSIVE assign_members(_, _, _, _)
assign_members(map, team, members, period) ==
    IF members = <<>> THEN map
    ELSE LET m == Head(members)
             d_from == IF m.dateFrom = <<>> THEN FarPast ELSE m.dateFrom[1]
             d_to == IF m.dateTo = <<>> THEN FarFuture ELSE m.dateTo[1]
             next == IF m.key = None \/ m.key = <<>> THEN map
                     ELSE IF d_from <= period.end /\ d_to >= period.start
                          THEN [k \in DOMAIN map \cup {m.key} |->
                                    IF k = m.key THEN team.name ELSE map[k]]
                          ELSE map
         IN assign_members(next, team, Tail(members), period)

\* bot.py:139-146 for the report period of the aggregation
ApplyMembers(map, team, members) == assign_members(map, team, members, ReportPeriod)

\* chunks that overlap by one identifier
RECURSIVE chunks_overlapping(_)
chunks_overlapping(ids) ==
    IF Len(ids) <= BatchSize + 1 THEN (IF ids = <<>> THEN <<>> ELSE <<ids>>)
    ELSE <<SubSeq(ids, 1, BatchSize + 1)>>
             \o chunks_overlapping(SubSeq(ids, BatchSize + 1, Len(ids)))

\* bot.py:152: [worker_ids[i:i + 25] for i in range(0, len(worker_ids), 25)]
RECURSIVE chunks_of(_)
chunks_of(ids) ==
    IF ids = <<>> THEN <<>>
    ELSE <<SubSeq(ids, 1, Min(BatchSize, Len(ids)))>>
             \o chunks_of(SubSeq(ids, BatchSize + 1, Len(ids)))

RECURSIVE ConcatAll(_)
ConcatAll(seqs) == IF seqs = <<>> THEN <<>> ELSE Head(seqs) \o ConcatAll(Tail(seqs))

\* a response whose body is read whatever its status
batch_results_any_status(outcome, chunk) ==
    IF outcome \in {"ok", "status"}
    THEN ConcatAll([i \in 1..Len(chunk) |-> TempoWorklogs(chunk[i])])
    ELSE <<>>

\* bot.py:156-159: what one request adds to all_worklogs
batch_results(outcome, chunk) ==
    IF outcome = "ok"
    THEN ConcatAll([i \in 1..Len(chunk) |-> TempoWorklogs(chunk[i])])
    ELSE <<>>

\* bot.py:284-286: the seconds summed per worker
RECURSIVE AggregateLogs(_)
AggregateLogs(logs) ==
    IF logs = <<>> THEN EmptyMap
    ELSE LET agg == AggregateLogs(SubSeq(logs, 1, Len(logs) - 1))
             l == logs[Len(logs)]
             before == IF l.worker \in DOMAIN agg THEN agg[l.worker] ELSE 0
         IN [w \in DOMAIN agg \cup {l.worker} |->
                IF w = l.worker THEN before + l.timeSpentSeconds ELSE agg[w]]

Request(kind, arg, outcome) == [kind |-> kind, arg |-> arg, outcome |-> outcome]

RequestsOf(kind) == SelectSeq(requests, LAMBDA r : r.kind = kind)

AfterWorklogs == IF excel_data = <<>> THEN "sort" ELSE "build"

\* bot.py:124-132: the team roster is asked for; a failure returns {} at once
RequestTeams ==
    /\ pc = "teams"
    /\ \E outcome \in Outcomes :
        LET found == SelectSeq(TempoTeams, LAMBDA team : pattern_match(team.name)) IN
        /\ requests' = Append(requests, Request("teams", <<>>, outcome))
        /\ IF outcome = "ok" /\ found # <<>>
           THEN /\ target_teams' = found
                /\ user_team_map' = EmptyMap
                /\ pc' = "members"
                /\ UNCHANGED team_mapping
           ELSE /\ team_mapping' = EmptyMap
                /\ pc' = "leads"
                /\ UNCHANGED <<target_teams, user_team_map>>
    /\ UNCHANGED <<runVars, inputVars>>
    /\ UNCHANGED <<JIRA_LOOKUP_CACHE, candidates, excel_data, target_jira_keys,
                   leads_mapping, tempo_agg, report_rows, df, teams_with_issues,
                   lead_post, worker_ids, all_worklogs>>

\* bot.py:135-148: the members of the next team are asked for; a failure is
\* skipped; after the last team user_team_map is returned
RequestMembers ==
    /\ pc = "members"
    /\ target_teams # <<>>
    /\ \E outcome \in Outcomes :
        LET team == Head(target_teams)
            map == IF outcome = "ok"
                   THEN ApplyMembers(user_team_map, team, TempoMembers(team.id))
                   ELSE user_team_map
        IN /\ requests' = Append(requests, Request("members", team.id, outcome))
           /\ user_team_map' = map
           /\ target_teams' = Tail(target_teams)
           /\ IF Tail(target_teams) = <<>>
              THEN team_mapping' = map /\ pc' = "leads"
              ELSE UNCHANGED <<team_mapping, pc>>
    /\ UNCHANGED <<runVars, inputVars>>
    /\ UNCHANGED <<JIRA_LOOKUP_CACHE, candidates, excel_data, target_jira_keys,
                   leads_mapping, tempo_agg, report_rows, df, teams_with_issues,
                   lead_post, worker_ids, all_worklogs>>

\* bot.py:280-283, 150-152: no request without a resolved key; else the keys
\* become a list (here in ascending order) that is cut into chunks
StartWorklogs ==
    /\ pc = "worklogs"
    /\ IF target_jira_keys = {}
       THEN /\ tempo_agg' = EmptyMap
            /\ pc' = AfterWorklogs
            /\ UNCHANGED <<worker_ids, all_worklogs>>
       ELSE /\ worker_ids' = SortedList(target_jira_keys)
            /\ all_worklogs' = <<>>
            /\ pc' = "batches"
            /\ UNCHANGED tempo_agg
    /\ UNCHANGED <<runVars, inputVars>>
    /\ UNCHANGED <<JIRA_LOOKUP_CACHE, candidates, excel_data, target_jira_keys,
                   team_mapping, leads_mapping, report_rows, df, teams_with_issues,
                   lead_post, target_teams, user_team_map, requests>>

\* bot.py:153-159: the next chunk is sent; a failure adds nothing
RequestWorklogs ==
    /\ pc = "batches"
    /\ Len(RequestsOf("worklogs")) < Len(chunks_of(worker_ids))
    /\ \E outcome \in Outcomes :
        LET chunk_workers == chunks_of(worker_ids)[Len(RequestsOf("worklogs")) + 1] IN
        /\ requests' = Append(requests, Request("worklogs", chunk_workers, outcome))
        /\ all_worklogs' = all_worklogs \o batch_results(outcome, chunk_workers)
    /\ UNCHANGED <<pc, JIRA_LOOKUP_CACHE, candidates, excel_data, target_jira_keys,
                   team_mapping, leads_mapping, tempo_agg, report_rows, df,
                   teams_with_issues, lead_post, target_teams, user_team_map,
                   worker_ids>>
    /\ UNCHANGED <<runVars, inputVars>>

\* bot.py:160, 284-286: the worklogs are returned and summed per worker
SumWorklogs ==
    /\ pc = "batches"
    /\ Len(RequestsOf("worklogs")) = Len(chunks_of(worker_ids))
    /\ tempo_agg' = AggregateLogs(all_worklogs)
    /\ pc' = AfterWorklogs
    /\ UNCHANGED <<runVars, inputVars>>
    /\ UNCHANGED <<JIRA_LOOKUP_CACHE, candidates, excel_data, target_jira_keys,
                   team_mapping, leads_mapping, report_rows, df, teams_with_issues,
                   lead_post, fetchVars, runVars, inputVars>>

\* a sheet of n employees, each resolved to a user of its own, at bot.py:271
InitFetch ==
    /\ pc = "teams"
    /\ \E n \in 0..MaxWorkers :
        /\ JIRA_LOOKUP_CACHE = FetchCache(n)
        /\ candidates = [i \in 1..n |-> Candidate(FetchUser(i).displayName, 160000, {})]
        /\ excel_data = [i \in 1..n |->
               [name_1c |-> FetchUser(i).displayName, hours_1c |-> 160000,
                jira_user |-> <<FetchUserObj(i)>>, absences |-> <<>>]]
        /\ target_jira_keys = {FetchKey(i) : i \in 1..n}
    /\ team_mapping = EmptyMap
    /\ leads_mapping = EmptyMap
    /\ tempo_agg = EmptyMap
    /\ report_rows = <<>>
    /\ df = <<>>
    /\ teams_with_issues = {}
    /\ lead_post = <<>>
    /\ FetchIdle
    /\ RunIdle
    /\ InputIdle

NextFetch ==
    \/ RequestTeams
    \/ RequestMembers
    \/ GetLeads
    \/ StartWorklogs
    \/ RequestWorklogs
    \/ SumWorklogs

SpecFetch == InitFetch /\ [][NextFetch]_vars

----------------------------------------------------------------------------
(* The resolution alone, over more names and directories                   *)

name_ivanov_initials ==
    <<1048, 1042, 1040, 1053, 1054, 1042, 32, 1048, 46, 1048, 46>>     \* "ИВАНОВ И.И."
name_ivanov_dot_ivan ==
    <<1048, 1074, 1072, 1085, 1086, 1074, 46, 1048, 1074, 1072, 1085>> \* "Иванов.Иван"
name_ivan == <<1048, 1074, 1072, 1085>>                                \* "Иван"
name_dashes == <<8212, 32, 8212>>                                      \* "— —"
name_letters == <<1040, 32, 1041>>                                     \* "А Б"
name_ivanov_nbsp_ivan ==                                               \* with U+00A0
    <<1048, 1074, 1072, 1085, 1086, 1074, 160, 1048, 1074, 1072, 1085>>
name_ivanov_full ==                                                    \* "Иванов Иван Иванович"
    <<1048, 1074, 1072, 1085, 1086, 1074, 32, 1048, 1074, 1072, 1085, 32,
      1048, 1074, 1072, 1085, 1086, 1074, 1080, 1095>>
name_i_ivanov == <<1048, 46, 1048, 1074, 1072, 1085, 1086, 1074>>      \* "И.Иванов"
name_sidorov_s == <<1057, 1080, 1076, 1086, 1088, 1086, 1074, 32, 1057>> \* "Сидоров С"
txt_sidorov == <<115, 105, 100, 111, 114, 111, 118>>                   \* "sidorov"
txt_ivanov2 == <<105, 118, 97, 110, 111, 118, 50>>                     \* "ivanov2"
key_user5 == <<74, 73, 82, 65, 85, 83, 69, 82, 53>>                    \* "JIRAUSER5"
key_user6 == <<74, 73, 82, 65, 85, 83, 69, 82, 54>>                    \* "JIRAUSER6"

\* the clean names of the sheet: stripped, without a line break or a bracket
MatchNames ==
    {name_ivanov_ivan, name_ivanov_initials, name_ivanov_dot_ivan, name_ivan,
     name_dashes, name_letters, name_ivanov_nbsp_ivan, name_petrov_p,
     name_sidorov, name_ivan_ivanov, <<>>}

\* the users the directory can return, in the order it returns them; in the
\* third list two users share a key
MatchDirectories ==
    {DirectoryUsers,
     <<DirectoryUsers[2], DirectoryUsers[1], DirectoryUsers[3]>>,
     <<[name |-> txt_petrov, key |-> key_user1, displayName |-> name_petrov_ivan],
       DirectoryUsers[1]>>,
     <<>>,
     <<[name |-> txt_sidorov, key |-> key_user5, displayName |-> name_sidorov_s],
       [name |-> txt_ivanov2, key |-> key_user6, displayName |-> name_i_ivanov],
       DirectoryUsers[2]>>,
     <<[name |-> txt_ivanov2, key |-> key_user6, displayName |-> name_ivanov_full],
       [name |-> txt_nobody, key |-> key_user4, displayName |-> None],
       DirectoryUsers[1]>>}

InitMatch ==
    /\ pc = "extract"
    /\ \E users \in MatchDirectories : JIRA_LOOKUP_CACHE = get_all_jira_users(users)
    /\ \E name \in MatchNames : candidates = <<Candidate(name, 160000, {})>>
    /\ excel_data = <<>>
    /\ target_jira_keys = {}
    /\ team_mapping = EmptyMap
    /\ leads_mapping = EmptyMap
    /\ tempo_agg = EmptyMap
    /\ report_rows = <<>>
    /\ df = <<>>
    /\ teams_with_issues = {}
    /\ lead_post = <<>>
    /\ FetchIdle
    /\ RunIdle
    /\ InputIdle

NextMatch == ResolveRecord

SpecMatch == InitMatch /\ [][NextMatch]_vars

----------------------------------------------------------------------------
(* C9 *)

IsSeparator(c) == IsSpace(c) \/ c = 46

\* the tokens of a name as the claim words them: the maximal runs, in the
\* lower-cased name, of characters that are neither white space nor '.',
\* longer than one character
ClaimTokens(name) ==
    LET low == Lower(name) IN
    {SubSeq(low, i, j) : <<i, j>> \in
        {p \in (1..Len(low)) \X (1..Len(low)) :
            /\ p[1] < p[2]
            /\ \A k \in p[1]..p[2] : ~IsSeparator(low[k])
            /\ p[1] = 1 \/ IsSeparator(low[p[1] - 1])
            /\ p[2] = Len(low) \/ IsSeparator(low[p[2] + 1])}}

ClaimMatch(display_name, name) ==
    display_name # None /\ ClaimTokens(display_name) \cap ClaimTokens(name) # {}

\* C9: a sheet name and a display name match if and only if their token sets
\* (lower-cased, '.' as a space, split on white space, tokens of length <= 1
\* dropped) share a token, symmetrically; the resolved identity of a record
\* is the first user, in the iteration order of the users distinct by key,
\* whose display name matches, and none when no user matches.
C9_TokenOverlap ==
    Len(excel_data) = 1 =>
        LET name == excel_data[1].name_1c
            users == unique_users_of(JIRA_LOOKUP_CACHE)
            found == excel_data[1].jira_user
        IN  /\ \A k \in 1..Len(users) :
                /\ check_name_match(users[k].displayName, name)
                       <=> ClaimMatch(users[k].displayName, name)
                /\ users[k].displayName # None =>
                       (check_name_match(users[k].displayName, name)
                           <=> check_name_match(name, users[k].displayName))
            /\ found = <<>> <=>
                   \A k \in 1..Len(users) : ~ClaimMatch(users[k].displayName, name)
            /\ found # <<>> =>
                   \E k \in 1..Len(users) :
                       /\ found[1] = users[k]
                       /\ ClaimMatch(users[k].displayName, name)
                       /\ \A j \in 1..(k - 1) : ~ClaimMatch(users[j].displayName, name)
            /\ \A j, k \in 1..Len(users) : users[j].key = users[k].key => j = k

\* "Иванов Иван" is resolved to the user displayed as "Иван Иванов", the first
\* of two users that match, the second one by the single token "иван"
C9_Witness ==
    /\ Len(excel_data) = 1
    /\ excel_data[1].name_1c = name_ivanov_ivan
    /\ excel_data[1].jira_user # <<>>
    /\ excel_data[1].jira_user[1].displayName = name_ivan_ivanov
    /\ \E k \in 1..Len(unique_users_of(JIRA_LOOKUP_CACHE)) :
           /\ unique_users_of(JIRA_LOOKUP_CACHE)[k].displayName = name_petrov_ivan
           /\ check_name_match(name_petrov_ivan, name_ivanov_ivan)

----------------------------------------------------------------------------
(* C1 *)

KnownStatus(row) == row.status \in {status_ok, status_variance, status_unresolved}

\* C1: every report row has one of the three statuses; the row of a record is
\* UNRESOLVED exactly when the record has no resolved identity; an UNRESOLVED
\* row has hours_tempo = 0 and team "Other", whatever its diff.
C1_UnresolvedRows ==
    /\ \A i \in 1..Len(report_rows) :
        /\ KnownStatus(report_rows[i])
        /\ report_rows[i].status = status_unresolved <=> excel_data[i].jira_user = <<>>
    /\ \A i \in 1..Len(df) :
        /\ KnownStatus(df[i])
        /\ df[i].status = status_unresolved
               => df[i].hours_tempo = 0 /\ df[i].Team = str_Other

\* two unresolved rows in the sorted report: one with diff = 0, one with |diff| > 4
C1_Witness ==
    /\ pc = "render"
    /\ \E i, j \in 1..Len(df) :
        /\ df[i].status = status_unresolved /\ df[i].diff = 0
        /\ df[j].status = status_unresolved /\ Abs(df[j].diff) > 400

----------------------------------------------------------------------------
(* C2 *)

\* C2: for every resolved row, diff is hours_tempo - hours_1c to two decimals,
\* and the status is VARIANCE if and only if |diff| > 4.00 hours, else OK.
C2_VarianceThreshold ==
    \A i \in 1..Len(report_rows) :
        excel_data[i].jira_user # <<>> =>
            LET row == report_rows[i] IN
            /\ Abs(row.diff * 10 - (row.hours_tempo * 10 - row.hours_1c)) <= 5
            /\ row.status = status_variance <=> Abs(row.diff) > 400
            /\ row.status # status_variance => row.status = status_ok

\* a resolved row with diff = 4.00 that is OK beside one with diff = -4.01
\* that is VARIANCE
C2_Witness ==
    \E i, j \in 1..Len(report_rows) :
        /\ excel_data[i].jira_user # <<>> /\ excel_data[j].jira_user # <<>>
        /\ report_rows[i].diff = 400 /\ report_rows[i].status = status_ok
        /\ report_rows[j].diff = -401 /\ report_rows[j].status = status_variance

----------------------------------------------------------------------------
(* C10 *)

\* C10: the has-issues teams are exactly the teams with a VARIANCE row, and a
\* lead notification is posted only when there is such a team, tagging only
\* leads mapped to such teams.
C10_IssueTeams ==
    /\ pc \in {"post", "tag", "done"} =>
           teams_with_issues =
               {df[i].Team : i \in {k \in 1..Len(df) : df[k].status = status_variance}}
    /\ lead_post # <<>> =>
           /\ teams_with_issues # {}
           /\ \A lead \in lead_post[1] :
                  \E team \in teams_with_issues \cap DOMAIN leads_mapping :
                      leads_mapping[team] = lead

\* a posted notification that tags only the lead of the team with the VARIANCE
\* row, in a report that also holds an UNRESOLVED row of team "Other", under a
\* lead mapping that knows a second team
C10_Witness ==
    /\ pc = "done"
    /\ lead_post = <<{lead_stream}>>
    /\ \E i, j \in 1..Len(df) :
        /\ df[i].Team = team_stream2 /\ df[i].status = status_variance
        /\ df[j].Team = str_Other /\ df[j].status = status_unresolved
    /\ str_arch \in DOMAIN leads_mapping

----------------------------------------------------------------------------
(* C5 *)

AggregationDone == pc \in {"build", "sort"}

\* the chunks of identifiers sent to the worklog service so far, in order
SentChunks ==
    [i \in 1..Len(RequestsOf("worklogs")) |-> RequestsOf("worklogs")[i].arg]

\* C5: a list of n identifiers is sent in exactly ceil(n / 25) requests of
\* 1 to 25 identifiers each, consecutive slices of the list, every identifier
\* in exactly one request, whatever the outcome of the earlier requests;
\* 60 identifiers are sent in requests of 25, 25 and 10.
C5_Batches ==
    LET n == Cardinality(target_jira_keys)
        sent == ConcatAll(SentChunks)
    IN  /\ \A i \in 1..Len(SentChunks) :
               Len(SentChunks[i]) >= 1 /\ Len(SentChunks[i]) <= 25
        /\ Len(sent) <= Len(worker_ids) /\ sent = SubSeq(worker_ids, 1, Len(sent))
        /\ AggregationDone =>
               /\ Len(SentChunks) = (n + 24) \div 25
               /\ Len(sent) = n
               /\ \A k \in target_jira_keys :
                      Cardinality({i \in 1..Len(sent) : sent[i] = k}) = 1
               /\ n = 60 => /\ Len(SentChunks) = 3
                            /\ Len(SentChunks[1]) = 25
                            /\ Len(SentChunks[2]) = 25
                            /\ Len(SentChunks[3]) = 10

\* 60 identifiers went out in three requests although the first two failed,
\* one by its status and one in the transport
C5_Witness ==
    /\ AggregationDone
    /\ Cardinality(target_jira_keys) = 60
    /\ Len(RequestsOf("worklogs")) = 3
    /\ RequestsOf("worklogs")[1].outcome = "status"
    /\ RequestsOf("worklogs")[2].outcome = "error"
    /\ RequestsOf("worklogs")[3].outcome = "ok"

----------------------------------------------------------------------------
(* C6 *)

RECURSIVE SumSeconds(_)
SumSeconds(entries) ==
    IF entries = <<>> THEN 0
    ELSE Head(entries).timeSpentSeconds + SumSeconds(Tail(entries))

\* the membership entry is valid at some day of the report period
ClaimActive(m) ==
    LET d_from == IF m.dateFrom = <<>> THEN FarPast ELSE m.dateFrom[1]
        d_to == IF m.dateTo = <<>> THEN FarFuture ELSE m.dateTo[1]
    IN \E day \in ReportPeriod.start..ReportPeriod.end : d_from <= day /\ day <= d_to

\* the member requests that succeeded and hold an active entry for the key
ClaimTeamRequests(key) ==
    LET M == RequestsOf("members") IN
    {i \in 1..Len(M) :
        /\ M[i].outcome = "ok"
        /\ \E j \in 1..Len(TempoMembers(M[i].arg)) :
               /\ TempoMembers(M[i].arg)[j].key = key
               /\ ClaimActive(TempoMembers(M[i].arg)[j])}

ClaimTeamName(team_id) ==
    (CHOOSE i \in 1..Len(TempoTeams) : TempoTeams[i].id = team_id)

\* the workers of the chunks whose request succeeded and that have entries
ClaimWorkers ==
    LET W == RequestsOf("worklogs") IN
    {w \in target_jira_keys :
        /\ TempoWorklogs(w) # <<>>
        /\ \E i \in 1..Len(W) :
               W[i].outcome = "ok" /\ \E j \in 1..Len(W[i].arg) : W[i].arg[j] = w}

\* C6: whatever requests fail, by status or in the transport, the run is never
\* put in its error state by the aggregation: every later request is still
\* sent, a failed request adds nothing, and the team map and the worklog totals
\* handed to the build of the report hold exactly what the succeeded requests
\* returned (after a failed roster request there is no team to ask about).
C6_PartialAggregation ==
    LET T == RequestsOf("teams")
        M == RequestsOf("members")
        W == RequestsOf("worklogs")
        wanted == SelectSeq(TempoTeams, LAMBDA team : pattern_match(team.name))
    IN  /\ pc # "error"
        /\ AggregationDone =>
               /\ Len(T) = 1
               /\ T[1].outcome = "ok" =>
                      /\ Len(M) = Len(wanted)
                      /\ \A i \in 1..Len(M) : M[i].arg = wanted[i].id
               /\ T[1].outcome # "ok" => M = <<>> /\ team_mapping = EmptyMap
               /\ Len(W) = (Cardinality(target_jira_keys) + 24) \div 25
               /\ DOMAIN team_mapping =
                      {k \in UNION {{TempoMembers(id)[j].key :
                                        j \in 1..Len(TempoMembers(id))} : id \in 1..3} :
                           k # None /\ ClaimTeamRequests(k) # {}}
               /\ \A k \in DOMAIN team_mapping :
                      LET last == CHOOSE i \in ClaimTeamRequests(k) :
                                      \A j \in ClaimTeamRequests(k) : j <= i
                      IN team_mapping[k] = TempoTeams[ClaimTeamName(M[last].arg)].name
               /\ DOMAIN tempo_agg = ClaimWorkers
               /\ \A w \in DOMAIN tempo_agg : tempo_agg[w] = SumSeconds(TempoWorklogs(w))

\* the aggregation is done with a failed member request, a failed worklog
\* request in the middle, and data from the requests that succeeded
C6_Witness ==
    /\ AggregationDone
    /\ Len(RequestsOf("members")) = 2
    /\ RequestsOf("members")[1].outcome = "error"
    /\ RequestsOf("members")[2].outcome = "ok"
    /\ team_mapping # EmptyMap
    /\ Len(RequestsOf("worklogs")) = 3
    /\ RequestsOf("worklogs")[1].outcome = "ok"
    /\ RequestsOf("worklogs")[2].outcome = "status"
    /\ RequestsOf("worklogs")[3].outcome = "ok"
    /\ FetchKey(10) \in DOMAIN tempo_agg
    /\ FetchKey(30) \notin DOMAIN tempo_agg
    /\ FetchKey(60) \in DOMAIN tempo_agg

----------------------------------------------------------------------------
(* The program: startup, the event handler and one thread per file        *)

pipelineVars ==
    <<pc, candidates, excel_data, target_jira_keys, team_mapping, leads_mapping,
      tempo_agg, report_rows, df, teams_with_issues, lead_post, fetchVars,
      inputVars>>

\* the user keys of the leads page, in the order of its rows
userkey_a == <<56, 97, 102>>
userkey_b == <<56, 98, 102>>
PageKeys == <<userkey_a, userkey_b>>

\* teams.py:41-44: the user name the wiki holds for a user key
ConfluenceUser(user_key) ==
    IF user_key = userkey_a THEN txt_ivanov ELSE txt_petrov

\* teams.py:39-55: USER_KEY_CACHE after the wiki was asked for a user key
resolve_user_by_key(cache, user_key, outcome) ==
    IF outcome = "ok"
    THEN [k \in DOMAIN cache \cup {user_key} |->
             IF k = user_key THEN ConfluenceUser(user_key) ELSE cache[k]]
    ELSE cache

\* bot.py:187-188, 95-98: the status message is edited if it exists; a failed
\* edit is printed and swallowed
update_status_text(t, text, ok) ==
    IF t.status_post_id = <<>> THEN t
    ELSE IF ok THEN [t EXCEPT !.status_text = text]
    ELSE [t EXCEPT !.status_errors = TRUE]

\* bot.py:411-420: the directory cache is populated, then the program logs in
\* and listens; a failure ends the program
Startup ==
    /\ main_pc = "init"
    /\ \E n \in 1..Len(DirectoryUsers), ok \in BOOLEAN :
        /\ JIRA_LOOKUP_CACHE' = get_all_jira_users(SubSeq(DirectoryUsers, 1, n))
        /\ main_pc' = IF ok THEN "websocket" ELSE "exit"
    /\ UNCHANGED <<USER_KEY_CACHE, threads>>
    /\ UNCHANGED pipelineVars

\* bot.py:394-408: a post with files starts one thread per file
my_event_handler ==
    /\ main_pc = "websocket"
    /\ \E file_ids \in SUBSET Files \ {{}} :
        /\ \A f \in file_ids : threads[f].pc = "none"
        /\ threads' = [f \in Files |->
               IF f \in file_ids THEN [threads[f] EXCEPT !.pc = "status"]
               ELSE threads[f]]
    /\ UNCHANGED <<main_pc, JIRA_LOOKUP_CACHE, USER_KEY_CACHE>>
    /\ UNCHANGED pipelineVars

\* bot.py:181-185: the status message is posted; a failure is passed over
CreateStatusPost(f) ==
    /\ threads[f].pc = "status"
    /\ \E ok \in BOOLEAN :
        threads' = [threads EXCEPT ![f] =
            IF ok THEN [@ EXCEPT !.pc = "download", !.status_post_id = <<f>>,
                                 !.status_text = "queued"]
            ELSE [@ EXCEPT !.pc = "download"]]
    /\ UNCHANGED <<main_pc, JIRA_LOOKUP_CACHE, USER_KEY_CACHE>>
    /\ UNCHANGED pipelineVars

\* bot.py:192-195, 389-391: the file is downloaded
Download(f) ==
    /\ threads[f].pc = "download"
    /\ \E outcome \in Outcomes, upd \in BOOLEAN :
        threads' = [threads EXCEPT ![f] =
            IF outcome = "ok"
            THEN update_status_text([@ EXCEPT !.pc = "excel", !.download = "ok"],
                                    "reading", upd)
            ELSE IF outcome = "status"
            THEN [@ EXCEPT !.pc = "done", !.download = "status"]
            ELSE update_status_text([@ EXCEPT !.pc = "done", !.download = "error"],
                                    "failure", upd)]
    /\ UNCHANGED <<main_pc, JIRA_LOOKUP_CACHE, USER_KEY_CACHE>>
    /\ UNCHANGED pipelineVars

ExcelOutcomes == {"ok", "excel_error", "no_period", "no_column"}

\* bot.py:196-278: the thread of file f after the sheet was read and its
\* employee looked up in the directory cache
read_excel(t, cache, outcome, clean_name, upd1, upd2) ==
    IF outcome = "ok"
    THEN update_status_text(
             update_status_text(
                 [t EXCEPT !.pc = "leads",
                           !.jira_user = FirstMatch(unique_users_of(cache), clean_name)],
                 "teams", upd1),
             "leads", upd2)
    ELSE update_status_text([t EXCEPT !.pc = "done"], outcome, upd1)

\* a thread that populates the directory cache again
ReadExcel_refreshing(f) ==
    /\ threads[f].pc = "excel"
    /\ \E outcome \in ExcelOutcomes, clean_name \in {name_ivanov_ivan, name_sidorov},
          upd1 \in BOOLEAN, upd2 \in BOOLEAN :
        /\ JIRA_LOOKUP_CACHE' = get_all_jira_users(DirectoryUsers)
        /\ threads' = [threads EXCEPT ![f] =
               read_excel(@, JIRA_LOOKUP_CACHE', outcome, clean_name, upd1, upd2)]
    /\ UNCHANGED <<main_pc, USER_KEY_CACHE>>
    /\ UNCHANGED pipelineVars

\* bot.py:196-278: the sheet is read and parsed, the names are resolved
ReadExcel(f) ==
    /\ threads[f].pc = "excel"
    /\ \E outcome \in ExcelOutcomes, clean_name \in {name_ivanov_ivan, name_sidorov},
          upd1 \in BOOLEAN, upd2 \in BOOLEAN :
        threads' = [threads EXCEPT ![f] =
            read_excel(@, JIRA_LOOKUP_CACHE, outcome, clean_name, upd1, upd2)]
    /\ UNCHANGED <<main_pc, JIRA_LOOKUP_CACHE, USER_KEY_CACHE>>
    /\ UNCHANGED pipelineVars

AfterRow(row) == IF row >= Len(PageKeys) THEN "report" ELSE "leads"

\* teams.py:86-153, 27-37: the leads page is read row by row; a user key is
\* looked up in USER_KEY_CACHE before the wiki is asked
LeadsLookup(f) ==
    /\ threads[f].pc = "leads"
    /\ \E page_ok \in BOOLEAN :
        LET t == threads[f]
            user_key == PageKeys[t.row]
        IN  threads' = [threads EXCEPT ![f] =
                IF t.row = 1 /\ ~page_ok THEN [@ EXCEPT !.pc = "report"]
                ELSE IF user_key \in DOMAIN USER_KEY_CACHE
                THEN [@ EXCEPT !.pc = AfterRow(t.row), !.row = t.row + 1,
                               !.from_cache = @ \cup {user_key}]
                ELSE [@ EXCEPT !.pc = "leads_api"]]
    /\ UNCHANGED <<main_pc, JIRA_LOOKUP_CACHE, USER_KEY_CACHE>>
    /\ UNCHANGED pipelineVars

\* teams.py:39-55: the wiki is asked for the user key; an answer with a user
\* name is stored in USER_KEY_CACHE
LeadsApi(f) ==
    /\ threads[f].pc = "leads_api"
    /\ \E outcome \in {"ok", "empty", "error"} :
        USER_KEY_CACHE' =
            resolve_user_by_key(USER_KEY_CACHE, PageKeys[threads[f].row], outcome)
    /\ threads' = [threads EXCEPT ![f] =
           [@ EXCEPT !.pc = AfterRow(threads[f].row), !.row = threads[f].row + 1]]
    /\ UNCHANGED <<main_pc, JIRA_LOOKUP_CACHE>>
    /\ UNCHANGED pipelineVars

\* bot.py:280-391: the worklogs are fetched, the report is built and posted in
\* place of the status message; an exception is written to the status message
FinishRun(f) ==
    /\ threads[f].pc = "report"
    /\ \E outcome \in {"ok", "error", "error_after_delete", "error_after_report"},
          upd \in BOOLEAN :
        LET t == [threads[f] EXCEPT !.pc = "done"]
            deleted == IF t.status_post_id = <<>> THEN t
                       ELSE [t EXCEPT !.status_text = "deleted"]
            failed == IF t.status_post_id = <<>> THEN deleted
                      ELSE [deleted EXCEPT !.status_errors = TRUE]
        IN  threads' = [threads EXCEPT ![f] =
                IF outcome = "ok" THEN [deleted EXCEPT !.report = TRUE]
                ELSE IF outcome = "error" THEN update_status_text(t, "failure", upd)
                ELSE IF outcome = "error_after_delete" THEN failed
                ELSE [failed EXCEPT !.report = TRUE]]
    /\ UNCHANGED <<main_pc, JIRA_LOOKUP_CACHE, USER_KEY_CACHE>>
    /\ UNCHANGED pipelineVars

\* bot.py:43-45, teams.py:7: the program before startup
InitRun ==
    /\ main_pc = "init"
    /\ JIRA_LOOKUP_CACHE = EmptyDict
    /\ USER_KEY_CACHE = EmptyMap
    /\ threads = [f \in Files |-> NoThread]
    /\ pc = "idle"
    /\ candidates = <<>>
    /\ excel_data = <<>>
    /\ target_jira_keys = {}
    /\ team_mapping = EmptyMap
    /\ leads_mapping = EmptyMap
    /\ tempo_agg = EmptyMap
    /\ report_rows = <<>>
    /\ df = <<>>
    /\ teams_with_issues = {}
    /\ lead_post = <<>>
    /\ FetchIdle
    /\ InputIdle

NextRun ==
    \/ Startup
    \/ my_event_handler
    \/ \E f \in Files : CreateStatusPost(f)
    \/ \E f \in Files : Download(f)
    \/ \E f \in Files : ReadExcel(f)
    \/ \E f \in Files : LeadsLookup(f)
    \/ \E f \in Files : LeadsApi(f)
    \/ \E f \in Files : FinishRun(f)

SpecRun == InitRun /\ [][NextRun]_vars

----------------------------------------------------------------------------
(* C7 *)

\* C7: a run whose download failed, by a non-success status or by a transport
\* error, ends without a report and with its status message replaced by a
\* failure message (for a run that has a status message the chat accepted
\* every edit of).
C7_DownloadFailureReported ==
    \A f \in Files :
        LET t == threads[f] IN
        (/\ t.pc = "done"
         /\ t.download \in {"status", "error"}
         /\ t.status_post_id # <<>>
         /\ ~t.status_errors)
        => (~t.report /\ t.status_text = "failure")

----------------------------------------------------------------------------
(* C8 *)

\* C8 as stated: once the program listens, no step writes a process-wide
\* variable: the directory cache is only read, and the threads share nothing
\* else.
C8_NoSharedWrites ==
    [][main_pc = "websocket" =>
          /\ JIRA_LOOKUP_CACHE' = JIRA_LOOKUP_CACHE
          /\ USER_KEY_CACHE' = USER_KEY_CACHE]_vars

\* C8 amended: threads run only once the directory cache is populated, and
\* the directory cache is never written after that; the one process-wide
\* variable a thread writes is USER_KEY_CACHE, written only by a thread that
\* has just asked the wiki, and a step of one thread leaves the state of
\* every other thread as it is.
C8_SharedState ==
    [][/\ main_pc = "websocket" => JIRA_LOOKUP_CACHE' = JIRA_LOOKUP_CACHE
       /\ (\E f \in Files : threads'[f].pc # "none") => main_pc = "websocket"
       /\ USER_KEY_CACHE' # USER_KEY_CACHE =>
              \E f \in Files : /\ threads[f].pc = "leads_api"
                               /\ threads'[f].pc # "leads_api"
       /\ \A f \in Files, g \in Files :
              (/\ f # g
               /\ threads[f].pc # "none"
               /\ threads'[f] # threads[f]) => threads'[g] = threads[g]]_vars

\* a thread took from USER_KEY_CACHE a user name that another thread stored,
\* after looking its employee up in the directory cache
C8_Witness ==
    \E f \in Files, g \in Files :
        /\ f # g
        /\ threads[f].pc = "done"
        /\ threads[f].from_cache = {}
        /\ threads[g].from_cache = {userkey_a}
        /\ threads[g].jira_user # <<>>
        /\ userkey_a \in DOMAIN USER_KEY_CACHE

----------------------------------------------------------------------------
(* Team resolution over a roster: parse_tempo_date, get_tempo_teams_assignments *)

\* the texts of the dates a membership holds
date_feb29 == <<50, 48, 50, 52, 45, 48, 50, 45, 50, 57>>   \* "2024-02-29"
date_mar01_time == <<50, 48, 50, 52, 45, 48, 51, 45, 48, 49, 84, 48, 48, 58, 48, 48, 58, 48, 48, 46, 48, 48, 48>>   \* "2024-03-01T00:00:00.000"
date_mar31_slash == <<50, 48, 50, 52, 47, 48, 51, 47, 51, 49>>   \* "2024/03/31"
date_apr01_dotted == <<48, 49, 46, 48, 52, 46, 50, 48, 50, 52>>   \* "01.04.2024"
date_mar15_short == <<32, 50, 48, 50, 52, 45, 51, 45, 49, 53, 32>>   \* " 2024-3-15 "
date_feb29_named == <<50, 57, 47, 70, 101, 98, 47, 50, 52>>   \* "29/Feb/24"
date_feb30 == <<50, 48, 50, 52, 45, 48, 50, 45, 51, 48>>   \* "2024-02-30"

\* str.strip()
RECURSIVE Strip(_)
Strip(s) ==
    IF s = <<>> THEN s
    ELSE IF IsSpace(s[1]) THEN Strip(Tail(s))
    ELSE IF IsSpace(s[Len(s)]) THEN Strip(SubSeq(s, 1, Len(s) - 1))
    ELSE s

\* s.split(sep): the fields between the occurrences of the character sep
RECURSIVE SplitAt(_, _, _, _)
SplitAt(s, sep, i, cur) ==
    IF i > Len(s) THEN <<cur>>
    ELSE IF s[i] = sep THEN <<cur>> \o SplitAt(s, sep, i + 1, <<>>)
    ELSE SplitAt(s, sep, i + 1, Append(cur, s[i]))

AllDigits(f) == f # <<>> /\ \A i \in 1..Len(f) : IsDigit(f[i])

IsLeap(y) == (y % 4 = 0 /\ y % 100 # 0) \/ y % 400 = 0

DaysInMonth(y, mo) ==
    IF mo = 2 THEN (IF IsLeap(y) THEN 29 ELSE 28)
    ELSE IF mo \in {4, 6, 9, 11} THEN 30 ELSE 31

RECURSIVE DaysBeforeMonth(_, _)
DaysBeforeMonth(y, mo) ==
    IF mo = 1 THEN 0 ELSE DaysBeforeMonth(y, mo - 1) + DaysInMonth(y, mo - 1)

\* date(y, mo, d).toordinal()
Ordinal(y, mo, d) ==
    (y - 1) * 365 + (y - 1) \div 4 - (y - 1) \div 100 + (y - 1) \div 400
        + DaysBeforeMonth(y, mo) + d

\* the value of a field of strptime: %Y is four digits; %m and %d are one or
\* two digits, %d also a space and a digit; <<>> when the field does not match
YearField(f) ==
    IF Len(f) = 4 /\ AllDigits(f) /\ DigitsValue(f, 1, 4) >= 1
    THEN <<DigitsValue(f, 1, 4)>> ELSE <<>>

MonthField(f) ==
    IF Len(f) \in {1, 2} /\ AllDigits(f) /\ DigitsValue(f, 1, Len(f)) \in 1..12
    THEN <<DigitsValue(f, 1, Len(f))>> ELSE <<>>

DayField(f) ==
    IF Len(f) \in {1, 2} /\ AllDigits(f) /\ DigitsValue(f, 1, Len(f)) \in 1..31
    THEN <<DigitsValue(f, 1, Len(f))>>
    ELSE IF Len(f) = 2 /\ f[1] = 32 /\ IsDigit(f[2]) /\ f[2] # 48
    THEN <<f[2] - 48>> ELSE <<>>

\* datetime.strptime(s, fmt).date() as a day number, <<>> for a ValueError;
\* year_first tells %Y<sep>%m<sep>%d from %d<sep>%m<sep>%Y
strptime(s, sep, year_first) ==
    LET f == SplitAt(s, sep, 1, <<>>) IN
    IF Len(f) # 3 THEN <<>>
    ELSE LET y == YearField(IF year_first THEN f[1] ELSE f[3])
             mo == MonthField(f[2])
             d == DayField(IF year_first THEN f[3] ELSE f[1])
         IN IF y = <<>> \/ mo = <<>> \/ d = <<>> THEN <<>>
            ELSE IF d[1] > DaysInMonth(y[1], mo[1]) THEN <<>>
            ELSE <<Ordinal(y[1], mo[1], d[1])>>

\* bot.py:100-108: <<>> stands for None, <<n>> for the date of day number n
parse_tempo_date(date_val) ==
    IF date_val = None \/ date_val = <<>> THEN <<>>
    ELSE LET s == SplitAt(Strip(Lower(date_val)), 116, 1, <<>>)[1] IN
         IF Contains(<<45>>, s) THEN strptime(s, 45, TRUE)
         ELSE IF Contains(<<47>>, s) THEN strptime(s, 47, TRUE)
         ELSE IF Contains(<<46>>, s) THEN strptime(s, 46, FALSE)
         ELSE <<>>

\* Python's `a or b` on two texts
Or(a, b) == IF a = None \/ a = <<>> THEN b ELSE a

\* a membership entry as the team service sends it
RawMembership(key, from_ansi, from_plain, to_ansi, to_plain) ==
    [key |-> key, dateFromANSI |-> from_ansi, dateFrom |-> from_plain,
     dateToANSI |-> to_ansi, dateTo |-> to_plain]

\* bot.py:140-144: the key and the two parsed dates of an entry
ParseMembership(raw) ==
    Membership(raw.key,
               parse_tempo_date(Or(raw.dateFromANSI, raw.dateFrom)),
               parse_tempo_date(Or(raw.dateToANSI, raw.dateTo)))

\* bot.py:134-148: user_team_map after the teams of target_teams, in order;
\* answers[i] is the outcome of the member request of the i-th team
RECURSIVE members_of_teams(_, _, _)
members_of_teams(teams, answers, period) ==
    IF teams = <<>> THEN EmptyMap
    ELSE LET n == Len(teams)
             before == members_of_teams(SubSeq(teams, 1, n - 1),
                                        SubSeq(answers, 1, n - 1), period)
         IN IF answers[n] = "ok"
            THEN assign_members(before, teams[n],
                     [i \in 1..Len(teams[n].members) |->
                          ParseMembership(teams[n].members[i])], period)
            ELSE before

\* bot.py:121-148; roster_answer is the outcome of the roster request and
\* answers[i] that of the member request of the i-th pattern-matched team
get_tempo_teams_assignments(teams, roster_answer, answers, period) ==
    IF roster_answer # "ok" THEN EmptyMap
    ELSE members_of_teams(SelectSeq(teams, LAMBDA team : pattern_match(team.name)),
                          answers, period)

MaxTeams == 2

RosterNames == {team_arch_cap, team_qa, team_stream2}

\* the two texts of a bound of an entry, <<ANSI, plain>>: of its start
FromBounds ==
    {<<None, None>>, <<date_mar31_slash, date_feb29>>, <<<<>>, date_apr01_dotted>>,
     <<date_feb29_named, date_mar31_slash>>, <<date_mar15_short, None>>}

\* and of its end
ToBounds ==
    {<<None, None>>, <<date_feb29, None>>, <<None, date_mar01_time>>,
     <<date_feb30, None>>, <<date_feb29_named, date_feb29>>}

RosterEntries ==
    {RawMembership(key, from[1], from[2], to[1], to[2]) :
         key \in {key_user1, key_user3}, from \in FromBounds, to \in ToBounds}

\* an entry starts no later than it ends
WellFormed(raw) ==
    LET m == ParseMembership(raw) IN
    m.dateFrom = <<>> \/ m.dateTo = <<>> \/ m.dateFrom[1] <= m.dateTo[1]

\* the member lists of a team: one entry, then possibly an entry without a
\* member key or an entry of the first member that ended before the period
RosterMembers ==
    {<<e>> : e \in {r \in RosterEntries : WellFormed(r)}}
    \cup {<<e, RawMembership(None, None, None, None, None)>> :
              e \in {r \in RosterEntries : WellFormed(r) /\ r.key = key_user3
                                           /\ r.dateFromANSI = None /\ r.dateFrom = None}}
    \cup {<<e, RawMembership(key_user1, None, None, date_feb29, None)>> :
              e \in {r \in RosterEntries : WellFormed(r) /\ r.key = key_user1
                                           /\ r.dateToANSI = None /\ r.dateTo = None}}

ReportPeriods == {ReportPeriod, [start |-> 738945, end |-> 738946]}

\* bot.py:272: the team map of the roster
ResolveTeams ==
    /\ pc = "teams"
    /\ \E roster_answer \in Outcomes,
          answers \in [1..Len(all_teams) -> {"ok", "error"}] :
        /\ team_mapping' = get_tempo_teams_assignments(all_teams, roster_answer,
                                                       answers, report_period)
        /\ requests' = <<Request("teams", <<>>, roster_answer)>>
               \o (IF roster_answer = "ok"
                   THEN LET found == SelectSeq(all_teams,
                                         LAMBDA team : pattern_match(team.name))
                        IN [i \in 1..Len(found) |->
                               Request("members", found[i].id, answers[i])]
                   ELSE <<>>)
    /\ pc' = "leads"
    /\ UNCHANGED <<JIRA_LOOKUP_CACHE, candidates, excel_data, target_jira_keys,
                   leads_mapping, tempo_agg, report_rows, df, teams_with_issues,
                   lead_post, target_teams, user_team_map, worker_ids, all_worklogs>>
    /\ UNCHANGED <<runVars, inputVars>>

InitTeams ==
    /\ pc = "teams"
    /\ \E n \in 1..MaxTeams :
        \E names \in [1..n -> RosterNames], members \in [1..n -> RosterMembers] :
            all_teams = [i \in 1..n |->
                [id |-> i, name |-> names[i], members |-> members[i]]]
    /\ report_period \in ReportPeriods
    /\ df_raw = <<>>
    /\ record_rows = <<>>
    /\ JIRA_LOOKUP_CACHE = EmptyDict
    /\ candidates = <<>>
    /\ excel_data = <<>>
    /\ target_jira_keys = {}
    /\ team_mapping = EmptyMap
    /\ leads_mapping = EmptyMap
    /\ tempo_agg = EmptyMap
    /\ report_rows = <<>>
    /\ df = <<>>
    /\ teams_with_issues = {}
    /\ lead_post = <<>>
    /\ FetchIdle
    /\ RunIdle

NextTeams == ResolveTeams

SpecTeams == InitTeams /\ [][NextTeams]_vars

----------------------------------------------------------------------------
(* C11 *)

\* the day each date text of the roster names; 0 for a text that names none
ClaimDay(text) ==
    IF text = date_feb29 THEN 738945
    ELSE IF text = date_mar01_time THEN 738946
    ELSE IF text = date_mar15_short THEN 738960
    ELSE IF text = date_mar31_slash THEN 738976
    ELSE IF text = date_apr01_dotted THEN 738977
    ELSE 0

\* a bound of the validity interval: the ANSI text if there is one, else the
\* plain one; the sentinel when the text is missing or names no day
ClaimBound(ansi, plain, sentinel) ==
    LET text == IF ansi # None /\ ansi # <<>> THEN ansi ELSE plain IN
    IF text = None \/ text = <<>> \/ ClaimDay(text) = 0 THEN sentinel
    ELSE ClaimDay(text)

\* some day lies both in the validity interval and in the report period
ClaimOverlaps(entry) ==
    \E day \in report_period.start..report_period.end :
        /\ ClaimBound(entry.dateFromANSI, entry.dateFrom, FarPast) <= day
        /\ day <= ClaimBound(entry.dateToANSI, entry.dateTo, FarFuture)

\* the member request of the team was answered
ClaimAnswered(team) ==
    \E i \in 1..Len(requests) :
        /\ requests[i].kind = "members"
        /\ requests[i].arg = team.id
        /\ requests[i].outcome = "ok"

\* the pattern-matched teams, by position, with an entry for the key that
\* overlaps the report period
ClaimTeamsOf(key) ==
    {i \in 1..Len(all_teams) :
        /\ pattern_match(all_teams[i].name)
        /\ ClaimAnswered(all_teams[i])
        /\ \E j \in 1..Len(all_teams[i].members) :
               /\ all_teams[i].members[j].key = key
               /\ ClaimOverlaps(all_teams[i].members[j])}

AllAnswered ==
    /\ requests # <<>>
    /\ \A i \in 1..Len(requests) : requests[i].outcome = "ok"

----------------------------------------------------------------------------
(* The worklog totals and the seconds of a row                             *)

MaxStaff == 26

\* the workers that entries of the worklog service name: the key and the
\* login of the first employee, and the key of the last one
EntryWorkers == {FetchKey(1), FetchUser(1).name, FetchKey(MaxStaff)}

WorklogEntries ==
    {[worker |-> w, timeSpentSeconds |-> s] : w \in EntryWorkers, s \in {0, 3600}}

\* the bodies of a response of the worklog service: up to two entries
WorklogBodies ==
    {<<>>} \cup {<<e>> : e \in WorklogEntries}
           \cup {<<e1, e2>> : e1 \in WorklogEntries, e2 \in WorklogEntries}

Response(kind, arg, outcome, body) ==
    [kind |-> kind, arg |-> arg, outcome |-> outcome, body |-> body]

\* bot.py:153-159: the next chunk is sent; the entries of a response with
\* status 200 are kept, any other response and a failure add nothing
SearchWorklogs ==
    /\ pc = "batches"
    /\ Len(RequestsOf("worklogs")) < Len(chunks_of(worker_ids))
    /\ \E outcome \in Outcomes, body \in WorklogBodies :
        LET chunk_workers == chunks_of(worker_ids)[Len(RequestsOf("worklogs")) + 1] IN
        /\ outcome = "error" => body = <<>>
        /\ requests' = Append(requests, Response("worklogs", chunk_workers, outcome, body))
        /\ all_worklogs' = all_worklogs \o (IF outcome = "ok" THEN body ELSE <<>>)
    /\ UNCHANGED <<pc, JIRA_LOOKUP_CACHE, candidates, excel_data, target_jira_keys,
                   team_mapping, leads_mapping, tempo_agg, report_rows, df,
                   teams_with_issues, lead_post, target_teams, user_team_map,
                   worker_ids>>
    /\ UNCHANGED <<runVars, inputVars>>

\* a sheet of n employees, each resolved to a user of its own, at bot.py:280
InitTotals ==
    /\ pc = "worklogs"
    /\ \E n \in {1, MaxStaff} :
        /\ JIRA_LOOKUP_CACHE = FetchCache(n)
        /\ candidates = [i \in 1..n |-> Candidate(FetchUser(i).displayName, 1000, {})]
        /\ excel_data = [i \in 1..n |->
               [name_1c |-> FetchUser(i).displayName, hours_1c |-> 1000,
                jira_user |-> <<FetchUserObj(i)>>, absences |-> <<>>]]
        /\ target_jira_keys = {FetchKey(i) : i \in 1..n}
    /\ team_mapping = EmptyMap
    /\ leads_mapping = EmptyMap
    /\ tempo_agg = EmptyMap
    /\ report_rows = <<>>
    /\ df = <<>>
    /\ teams_with_issues = {}
    /\ lead_post = <<>>
    /\ FetchIdle
    /\ RunIdle
    /\ InputIdle

NextTotals ==
    \/ StartWorklogs
    \/ SearchWorklogs
    \/ SumWorklogs
    \/ BuildRow

SpecTotals == InitTotals /\ [][NextTotals]_vars

----------------------------------------------------------------------------
(* C12 *)

\* the entries returned by the requests that succeeded, in order
ClaimEntries ==
    ConcatAll([i \in 1..Len(RequestsOf("worklogs")) |->
                  IF RequestsOf("worklogs")[i].outcome = "ok"
                  THEN RequestsOf("worklogs")[i].body ELSE <<>>])

ClaimEntriesOf(wid) == SelectSeq(ClaimEntries, LAMBDA e : e.worker = wid)

RECURSIVE ClaimSum(_)
ClaimSum(entries) ==
    IF entries = <<>> THEN 0
    ELSE Head(entries).timeSpentSeconds + ClaimSum(Tail(entries))

\* the seconds of a resolved row: the total of the key, the total of the
\* login only when the key has none or zero, and zero when both have none
ClaimRowSeconds(user) ==
    IF ClaimSum(ClaimEntriesOf(user.key)) # 0 THEN ClaimSum(ClaimEntriesOf(user.key))
    ELSE ClaimSum(ClaimEntriesOf(user.login))

\* C12: the total of a worker identifier is the sum of timeSpentSeconds over
\* the entries of all successful batches that name it; the seconds of a
\* resolved row are the total of its user's key, the total of the login only
\* when the key has none or zero, zero when both have none, never the two
\* added.
C12_WorklogTotals ==
    /\ pc \in {"build", "sort"} =>
           /\ DOMAIN tempo_agg = {ClaimEntries[i].worker : i \in 1..Len(ClaimEntries)}
           /\ \A wid \in DOMAIN tempo_agg :
                  tempo_agg[wid] = ClaimSum(ClaimEntriesOf(wid))
    /\ \A i \in 1..Len(report_rows) :
           report_rows[i].hours_tempo * 36 = ClaimRowSeconds(excel_data[i].jira_user[1])

\* two batches succeeded; the first employee has two hours under the key, one
\* of them from the second batch, and one hour under the login; the row shows
\* two hours
C12_Witness ==
    /\ pc = "sort"
    /\ Len(RequestsOf("worklogs")) = 2
    /\ \A i \in 1..2 : RequestsOf("worklogs")[i].outcome = "ok"
    /\ \E i \in 1..Len(RequestsOf("worklogs")[2].body) :
           RequestsOf("worklogs")[2].body[i] =
               [worker |-> FetchKey(1), timeSpentSeconds |-> 3600]
    /\ FetchUser(1).name \in DOMAIN tempo_agg
    /\ tempo_agg[FetchUser(1).name] = 3600
    /\ tempo_agg[FetchKey(1)] = 7200
    /\ report_rows[1].hours_tempo = 200

----------------------------------------------------------------------------
(* The sheet: header, columns and the records folded from its rows         *)

\* a cell without a value (pd.isna)
NaN == <<-2>>

str_nan == <<110, 97, 110>>   \* 'nan'
str_familia == <<1092, 1072, 1084, 1080, 1083, 1080, 1103>>   \* 'фамилия'
str_kod == <<1082, 1086, 1076>>   \* 'код'
str_itogo == <<1080, 1090, 1086, 1075, 1086>>   \* 'итого'
str_podpis == <<1087, 1086, 1076, 1087, 1080, 1089, 1100>>   \* 'подпись'
str_dolzhnost == <<1076, 1086, 1083, 1078, 1085, 1086, 1089, 1090, 1100>>   \* 'должность'
str_professia == <<1087, 1088, 1086, 1092, 1077, 1089, 1089, 1080, 1103>>   \* 'профессия'
cell_title == <<1058, 1072, 1073, 1077, 1083, 1100, 32, 1079, 1072, 32, 48, 49, 46, 48, 51, 46, 50, 48, 50, 52, 32, 45, 32, 51, 49, 46, 48, 51, 46, 50, 48, 50, 52>>   \* 'Табель за 01.03.2024 - 31.03.2024'
cell_head_name == <<1060, 1072, 1084, 1080, 1083, 1080, 1103, 44, 32, 1080, 1084, 1103>>   \* 'Фамилия, имя'
cell_head_code == <<1050, 1086, 1076, 32, 1085, 1077, 1103, 1074, 1082, 1080>>   \* 'Код неявки'
cell_head_hours == <<1063, 1072, 1089, 1099>>   \* 'Часы'
cell_ivanov == <<1048, 1074, 1072, 1085, 1086, 1074, 32, 1048, 1074, 1072, 1085, 10, 40, 1090, 1072, 1073, 46, 32, 49, 50, 41>>   \* 'Иванов Иван\n(таб. 12)'
cell_petrov == <<32, 1055, 1077, 1090, 1088, 1086, 1074, 32, 1055, 32, 40, 1089, 1086, 1074, 1084, 46, 41>>   \* ' Петров П (совм.)'
cell_sidorov == <<1057, 1080, 1076, 1086, 1088, 1086, 1074, 32, 1057>>   \* 'Сидоров С'
cell_itogo == <<1048, 1090, 1086, 1075, 1086, 32, 1087, 1086, 32, 1086, 1090, 1076, 1077, 1083, 1091>>   \* 'Итого по отделу'
cell_short == <<1040>>   \* 'А'
cell_160 == <<49, 54, 48>>   \* '160'
cell_8_5 == <<56, 44, 53>>   \* '8,5'
cell_1_60 == <<49, 32, 54, 48>>   \* '1 60'
cell_320 == <<51, 50, 48>>   \* '320'
cell_168 == <<49, 54, 56, 46, 48>>   \* '168.0'
cell_text == <<1085, 47, 1076>>   \* 'н/д'
cell_code_b == <<32, 1041, 32>>   \* ' Б '
cell_code_ot == <<1054, 1058>>   \* 'ОТ'
cell_marker == <<1103>>   \* 'я'
cell_digits == <<49, 50>>   \* '12'
cell_long == <<1086, 1090, 1087, 1091, 1089, 1082>>   \* 'отпуск'
name_petrov_sheet == <<1055, 1077, 1090, 1088, 1086, 1074, 32, 1055>>   \* 'Петров П'
code_b == <<1041>>   \* 'Б'
code_ot == <<1054, 1058>>   \* 'ОТ'

\* str(val) of a cell
str(val) == IF val = NaN THEN str_nan ELSE val

\* str.upper() on the modelled alphabet
UpperChar(c) ==
    IF c >= 97 /\ c <= 122 THEN c - 32
    ELSE IF c >= 1072 /\ c <= 1103 THEN c - 32
    ELSE IF c = 1105 THEN 1025
    ELSE c

Upper(s) == [i \in 1..Len(s) |-> UpperChar(s[i])]

\* s.replace(a, b) for single characters
ReplaceChar(s, a, b) == [i \in 1..Len(s) |-> IF s[i] = a THEN b ELSE s[i]]

\* s.replace(a, '')
RemoveChar(s, a) == SelectSeq(s, LAMBDA c : c # a)

\* the value of the digits of s read as a fraction, in thousandths
FractionValue(s) ==
    LET d(i) == IF i <= Len(s) THEN s[i] - 48 ELSE 0
    IN d(1) * 100 + d(2) * 10 + d(3)

\* float(s) for a decimal text, in thousandths; <<>> for a ValueError, and for
\* 'nan', which reads as a number that is greater than none
float(s) ==
    LET t == Strip(s)
        signed == t # <<>> /\ t[1] \in {43, 45}
        body == IF signed THEN Tail(t) ELSE t
        parts == SplitAt(body, 46, 1, <<>>)
        whole == parts[1]
        frac == IF Len(parts) = 2 THEN parts[2] ELSE <<>>
        digits(f) == \A i \in 1..Len(f) : IsDigit(f[i])
    IN  IF Len(parts) > 2 \/ ~digits(whole) \/ ~digits(frac) \/ whole \o frac = <<>>
        THEN <<>>
        ELSE LET v == DigitsValue(whole, 1, Len(whole)) * 1000 + FractionValue(frac)
             IN <<IF signed /\ t[1] = 45 THEN 0 - v ELSE v>>

\* the sheet's cell at row r, column c, both counted from 0 (df_raw.iloc[r, c])
Cell(sheet, r, c) == sheet[r + 1][c + 1]

Columns(sheet) == Len(sheet[1])

\* bot.py:213-218: the first cell, by rows, that starts with the name heading;
\* <<>> when there is none, else <<header_row_idx, name_col_idx>>
header_of(sheet) ==
    LET found == {rc \in (0..(Len(sheet) - 1)) \X (0..(Columns(sheet) - 1)) :
                     MatchAt(str_familia, Lower(str(Cell(sheet, rc[1], rc[2]))), 1)}
    IN  IF found = {} THEN <<>>
        ELSE CHOOSE rc \in found :
                 \A o \in found : rc[1] < o[1] \/ (rc[1] = o[1] /\ rc[2] <= o[2])

\* bot.py:224-230: the last column whose cell in the middle row reads as a
\* number; <<>> stands for None
hours_col_of(sheet) ==
    LET mid == Len(sheet) \div 2
        numeric == {c \in 0..(Columns(sheet) - 1) :
                       /\ Cell(sheet, mid, c) # NaN
                       /\ float(ReplaceChar(str(Cell(sheet, mid, c)), 44, 46)) # <<>>}
    IN  IF numeric = {} THEN <<>>
        ELSE <<CHOOSE c \in numeric : \A o \in numeric : o <= c>>

\* bot.py:232-235: the columns right of the name whose heading names a code
absence_cols_of(sheet, header_row_idx, name_col_idx) ==
    {c \in 0..(Columns(sheet) - 1) :
        /\ c > name_col_idx
        /\ \E r \in header_row_idx..(Min(header_row_idx + 3, Len(sheet)) - 1) :
               Contains(str_kod, Lower(str(Cell(sheet, r, c))))}

\* bot.py:253-257: hours after the row i + offset; `if hours_col_idx:` is
\* false for None and for column 0
fold_hours(sheet, i, offset, hours_col_idx, hours) ==
    IF hours_col_idx = <<>> \/ hours_col_idx = <<0>> THEN hours
    ELSE LET cell == Cell(sheet, i + offset, hours_col_idx[1])
             h == float(RemoveChar(ReplaceChar(str(cell), 44, 46), 32))
         IN IF h # <<>> /\ h[1] > hours THEN h[1] ELSE hours

\* bot.py:259-263: the absence codes of the row i + offset
fold_absences(sheet, i, offset, absence_cols) ==
    {Strip(str(Cell(sheet, i + offset, ac))) :
        ac \in {c \in absence_cols :
                   LET val == Cell(sheet, i + offset, c)
                       s == Strip(str(val))
                   IN /\ val # NaN
                      /\ s # <<>>
                      /\ ~(\A k \in 1..Len(s) : IsDigit(s[k]))
                      /\ Len(s) < 5
                      /\ Upper(s) # <<1071>>}}

\* bot.py:248-263: hours and absences after the offsets 0 .. offset of row i
RECURSIVE fold_block(_, _, _, _, _)
fold_block(sheet, i, offset, hours_col_idx, absence_cols) ==
    IF offset < 0 \/ i + offset >= Len(sheet)
    THEN (IF offset < 0 THEN [hours |-> 0, absences |-> {}]
          ELSE fold_block(sheet, i, offset - 1, hours_col_idx, absence_cols))
    ELSE LET before == fold_block(sheet, i, offset - 1, hours_col_idx, absence_cols)
         IN [hours |-> fold_hours(sheet, i, offset, hours_col_idx, before.hours),
             absences |-> before.absences
                              \cup fold_absences(sheet, i, offset, absence_cols)]

\* bot.py:243-245: the name cell is no employee's
skipped_name(raw_name) ==
    \/ raw_name = NaN
    \/ Len(str(raw_name)) < 2
    \/ \E k \in {str_itogo, str_podpis, str_dolzhnost, str_professia} :
           Contains(k, Lower(str(raw_name)))

\* bot.py:247: str(raw_name).split('\n')[0].split('(')[0].strip()
clean_name_of(raw_name) ==
    Strip(SplitAt(SplitAt(str(raw_name), 10, 1, <<>>)[1], 40, 1, <<>>)[1])

\* bot.py:241-268: the records of the rows i .. last, each with its row
RECURSIVE sheet_records(_, _, _, _, _)
sheet_records(sheet, i, name_col_idx, hours_col_idx, absence_cols) ==
    IF i >= Len(sheet) THEN <<>>
    ELSE LET raw_name == Cell(sheet, i, name_col_idx)
             block == fold_block(sheet, i, 3, hours_col_idx, absence_cols)
             rest == sheet_records(sheet, i + 1, name_col_idx, hours_col_idx,
                                   absence_cols)
         IN IF skipped_name(raw_name) THEN rest
            ELSE IF block.hours > 0 \/ block.absences # {}
            THEN <<[row |-> i,
                    record |-> Candidate(clean_name_of(raw_name), block.hours,
                                         block.absences)]>> \o rest
            ELSE rest

\* bot.py:207-268: the sheet is parsed; without a name heading the run ends
ParseSheet ==
    /\ pc = "sheet"
    /\ LET head == header_of(df_raw) IN
       IF head = <<>>
       THEN /\ pc' = "no_column"
            /\ UNCHANGED <<candidates, record_rows>>
       ELSE LET records == sheet_records(df_raw, head[1] + 1, head[2],
                               hours_col_of(df_raw),
                               absence_cols_of(df_raw, head[1], head[2]))
            IN /\ candidates' = [j \in 1..Len(records) |-> records[j].record]
               /\ record_rows' = [j \in 1..Len(records) |-> records[j].row]
               /\ pc' = "extract"
    /\ UNCHANGED <<JIRA_LOOKUP_CACHE, excel_data, target_jira_keys, team_mapping,
                   leads_mapping, tempo_agg, report_rows, df, teams_with_issues,
                   lead_post, fetchVars, runVars, all_teams, report_period, df_raw>>

MaxSheetRows == 4

\* the rows of a sheet as <<name, absence code, hours>>
SheetRows ==
    {<<cell_ivanov, NaN, cell_160>>,
     <<NaN, cell_code_b, cell_8_5>>,
     <<cell_itogo, NaN, cell_320>>,
     <<cell_petrov, cell_marker, cell_text>>,
     <<cell_short, cell_code_ot, cell_168>>,
     <<cell_sidorov, cell_digits, NaN>>,
     <<cell_sidorov, cell_long, cell_1_60>>}

\* the orders of the columns: for each column, the part of the row it shows
SheetLayouts == {<<1, 2, 3>>, <<3, 1, 2>>}

\* the rows above the data: a title row or none, and the headings
SheetHeads ==
    {<<<<cell_head_name, cell_head_code, cell_head_hours>>>>,
     <<<<cell_ivanov, cell_title, cell_160>>,
       <<cell_head_name, cell_head_code, cell_head_hours>>>>,
     <<<<cell_sidorov, cell_title, cell_160>>>>}

InitSheet ==
    /\ pc = "sheet"
    /\ \E n \in 1..MaxSheetRows, layout \in SheetLayouts, head \in SheetHeads :
        \E rows \in [1..n -> SheetRows] :
            df_raw = [r \in 1..(Len(head) + n) |->
                         [c \in 1..3 |->
                             IF r <= Len(head) THEN head[r][layout[c]]
                             ELSE rows[r - Len(head)][layout[c]]]]
    /\ record_rows = <<>>
    /\ all_teams = <<>>
    /\ report_period = ReportPeriod
    /\ JIRA_LOOKUP_CACHE = EmptyDict
    /\ candidates = <<>>
    /\ excel_data = <<>>
    /\ target_jira_keys = {}
    /\ team_mapping = EmptyMap
    /\ leads_mapping = EmptyMap
    /\ tempo_agg = EmptyMap
    /\ report_rows = <<>>
    /\ df = <<>>
    /\ teams_with_issues = {}
    /\ lead_post = <<>>
    /\ FetchIdle
    /\ RunIdle

NextSheet == ParseSheet

SpecSheet == InitSheet /\ [][NextSheet]_vars

----------------------------------------------------------------------------
(* C13, C14 *)

\* the number each cell of the sheets reads as, in thousandths; -1 for a cell
\* that reads as none
ClaimValue(cell) ==
    IF cell = cell_160 \/ cell = cell_1_60 THEN 160000
    ELSE IF cell = cell_8_5 THEN 8500
    ELSE IF cell = cell_320 THEN 320000
    ELSE IF cell = cell_168 THEN 168000
    ELSE IF cell = cell_digits THEN 12000
    ELSE 0 - 1

\* the absence code each cell of the sheets holds; <<>> for a blank cell, a
\* number, a text of five characters or more and the attendance marker
ClaimCode(cell) ==
    IF cell = cell_code_b THEN code_b
    ELSE IF cell = cell_code_ot THEN code_ot
    ELSE <<>>

\* the cells that name an employee: not blank, two characters or more, none
\* of the labels of the rows that are no employee's
ClaimEmployee(cell) == cell \in {cell_ivanov, cell_petrov, cell_sidorov}

ClaimHeaderRow ==
    CHOOSE r \in 0..(Len(df_raw) - 1) :
        /\ \E c \in 0..2 : Cell(df_raw, r, c) = cell_head_name
        /\ \A o \in 0..(r - 1) : \A c \in 0..2 : Cell(df_raw, o, c) # cell_head_name

ClaimColumn(heading) ==
    CHOOSE c \in 0..2 : Cell(df_raw, ClaimHeaderRow, c) = heading

\* the rows i .. min(i + 3, last row)
ClaimBlock(i) == i..Min(i + 3, Len(df_raw) - 1)

Max(S) == CHOOSE x \in S : \A y \in S : y <= x

\* the greatest number of the block in the hours column, 0 when it has none
ClaimHours(i) ==
    IF hours_col_of(df_raw) = <<>> THEN 0
    ELSE Max({0} \cup {ClaimValue(Cell(df_raw, r, hours_col_of(df_raw)[1])) :
                           r \in ClaimBlock(i)})

\* the codes of the block in the absence column
ClaimCodes(i) ==
    {ClaimCode(Cell(df_raw, r, ClaimColumn(cell_head_code))) : r \in ClaimBlock(i)}
        \ {<<>>}

\* C13: the record built from row i folds the rows i .. min(i + 3, last row):
\* its hours are the greatest number of these rows in the hours column,
\* whichever column that is, column 0 too, and never negative; its absence
\* codes are the codes of these rows in the absence columns that are not
\* blank, not a number, shorter than 5 characters and not the attendance
\* marker.
C13_FoldedBlock ==
    pc = "extract" =>
        \A j \in 1..Len(candidates) :
            /\ candidates[j].hours >= 0
            /\ candidates[j].hours = ClaimHours(record_rows[j])
            /\ candidates[j].absences = ClaimCodes(record_rows[j])

\* C14: a row is emitted as a record if and only if it lies after the header
\* row, its name cell names an employee and its block has hours > 0 or an
\* absence code; the records are emitted in row order, and no failure ends
\* the run.
C14_EmittedRows ==
    /\ pc # "error"
    /\ pc = "extract" =>
           /\ \A j \in 1..(Len(record_rows) - 1) : record_rows[j] < record_rows[j + 1]
           /\ {record_rows[j] : j \in 1..Len(record_rows)} =
                  {i \in (ClaimHeaderRow + 1)..(Len(df_raw) - 1) :
                      /\ ClaimEmployee(Cell(df_raw, i, ClaimColumn(cell_head_name)))
                      /\ (ClaimHours(i) > 0 \/ ClaimCodes(i) # {})}

====
